---- MODULE Spec2Model ----
(***************************************************************************)
(* Model of the magang-backend REST API (src/index.js, src/unnamed/part_000).*)
(*                                                                         *)
(* The database tables users, companies, placements and logbooks are the   *)
(* state.  Every table is a sequence of rows; the row at index i is the    *)
(* row whose AUTO_INCREMENT id is i.  Each SQL statement of the source is  *)
(* an operator on tables; each route handler is an action that applies its *)
(* statements in the order of the source.  Columns that no handler reads   *)
(* in a condition (nama_lengkap, nim, jurusan, no_hp, foto_profil,         *)
(* alamat, kontak, created_at, updated_at) are left out.                   *)
(***************************************************************************)
EXTENDS Integers, Sequences, FiniteSets, TLC

VARIABLES
    rev,         \* which revision of the server is deployed
    users,       \* table users
    companies,   \* table companies
    placements,  \* table placements
    logbooks,    \* table logbooks
    tokens,      \* the payloads of the session tokens issued so far
    uploads,     \* the names of the files in the upload directory
    resp,        \* the response of the last completed request
    procs,       \* requests in flight, one per worker, statement by statement
    hist         \* history: what the participant of the placement just created
                 \* was before the creation (read by no handler)

vars == <<rev, users, companies, placements, logbooks, tokens, uploads, resp, procs,
         hist>>

----------------------------------------------------------------------------
(* Bounds of the model.                                                    *)

MaxPlacements == 2

MaxLogbooks == 2

MaxDate == 1

MaxUploads == 1

----------------------------------------------------------------------------
(* Values.                                                                 *)

\* SQL NULL in an id or timestamp column; also a missing (falsy) number of a body.
NULL == 0

\* The value NOW() stores in a timestamp column.
NOW == 1

\* A missing (falsy) text field of a request body.
NoText == ""

Latest == "index.js:1-1255"

Earlier == {"index.js:1257-1674", "index.js:1676-1852", "part_000"}

Revisions == {Latest} \cup Earlier

Roles == {"admin", "supervisor", "peserta"}

Statuses == {"menunggu", "disetujui", "ditolak"}

Dates == 1..MaxDate

Procs == {1, 2}

\* Authorization headers: no header, a token that fails jwt.verify, or the
\* payload of a token that verifies.
NoAuth == [kind |-> "none", id |-> NULL, role |-> NoText]

ExpiredAuth == [kind |-> "expired", id |-> NULL, role |-> NoText]

MalformedAuth == [kind |-> "malformed", id |-> NULL, role |-> NoText]

Bearer(t) == [kind |-> "valid", id |-> t.id, role |-> t.role]

Auths == {NoAuth, ExpiredAuth, MalformedAuth} \cup {Bearer(t) : t \in tokens}

\* bcrypt.hash(password, 10): the text stored in the password column.  It is
\* one-way, so the hash of a password is never that password.
Hash(password) == "$2b$10$" \o password

\* bcrypt.compare(password, stored): whether stored is the hash of password.
Compare(password, stored) == stored = Hash(password)

----------------------------------------------------------------------------
(* The seeded database: an admin, two supervisors and two participants,    *)
(* each created by POST /users or POST /register (status 'locked', no      *)
(* company) and logged in once, and two companies created by               *)
(* POST /companies.                                                        *)

UserRow(username, password, role, company_id) ==
    [username |-> username, password |-> Hash(password), role |-> role,
     status_laporan |-> "locked", company_id |-> company_id, last_login |-> NULL,
     deleted_at |-> NULL]

SeedUsers ==
    << UserRow("admin", "secret", "admin", NULL),
       UserRow("sup1", "secret", "supervisor", NULL),
       UserRow("sup2", "secret", "supervisor", NULL),
       UserRow("amara", "secret", "peserta", NULL),
       UserRow("budi", "secret", "peserta", NULL) >>

CompanyRow(nama_perusahaan) ==
    [nama_perusahaan |-> nama_perusahaan, deleted_at |-> NULL]

SeedCompanies == << CompanyRow("PT A"), CompanyRow("PT B") >>

\* jwt.sign({id, role, nama}): the payload a login of user i is issued.
TokenOf(us, i) == [id |-> i, role |-> us[i].role]

IdleProc ==
    [pc |-> "idle", op |-> "none", id |-> NULL, user_id |-> NULL,
     supervisor_id |-> NULL, company_id |-> NULL, sel |-> {}, status |-> 0,
     pre_users |-> <<>>, pre_placements |-> <<>>]

NoResp == [op |-> "none", status |-> 0, error |-> NoText]

NoHist == [id |-> NULL, user_id |-> NULL, status_laporan |-> NoText, company_id |-> NULL]

\* UPDATE users SET last_login = NOW() WHERE id = ?
UpdateLastLogin(us, id) ==
    [i \in DOMAIN us |-> IF i = id THEN [us[i] EXCEPT !.last_login = NOW] ELSE us[i]]

InitDb ==
    /\ users = [i \in DOMAIN SeedUsers |-> UpdateLastLogin(SeedUsers, i)[i]]
    /\ companies = SeedCompanies
    /\ placements = <<>>
    /\ logbooks = <<>>
    /\ tokens = {TokenOf(SeedUsers, i) : i \in DOMAIN SeedUsers}
    /\ uploads = {}
    /\ resp = NoResp
    /\ procs = [p \in Procs |-> IdleProc]
    /\ hist = NoHist

Init ==
    /\ rev = Latest
    /\ InitDb

----------------------------------------------------------------------------
(* Middleware.                                                             *)

Reply(op, status, error) == [op |-> op, status |-> status, error |-> error]

\* verifyToken: 401 without a header, 403 for a token jwt.verify rejects,
\* otherwise req.user is the decoded payload and the next handler runs (200).
VerifyToken(auth) ==
    IF auth.kind = "none"
    THEN [status |-> 401, error |-> "Unauthorized - No token provided"]
    ELSE IF auth.kind = "expired"
    THEN [status |-> 403, error |-> "Token expired"]
    ELSE IF auth.kind = "malformed"
    THEN [status |-> 403, error |-> "Invalid token"]
    ELSE [status |-> 200, error |-> NoText]

\* allow(...roles): 403 unless the token's role is one of roles.
Allow(auth, roles) ==
    IF auth.kind # "valid"
    THEN [status |-> 401, error |-> "Unauthorized - User not authenticated"]
    ELSE IF auth.role \notin roles
    THEN [status |-> 403,
          error |-> "Akses ditolak - Anda tidak memiliki izin yang diperlukan"]
    ELSE [status |-> 200, error |-> NoText]

\* verifyToken, then allow(...roles): the first denial, or 200 to go on.
Gate(auth, roles) ==
    IF VerifyToken(auth).status # 200 THEN VerifyToken(auth) ELSE Allow(auth, roles)

----------------------------------------------------------------------------
(* SQL statements on placements and users.                                 *)

Ids(table) == DOMAIN table

\* SELECT id FROM placements WHERE user_id = ? AND deleted_at IS NULL
SelectActivePlacements(pl, user_id) ==
    {i \in Ids(pl) : pl[i].user_id = user_id /\ pl[i].deleted_at = NULL}

\* INSERT INTO placements (user_id, supervisor_id, company_id, created_at)
InsertPlacement(pl, user_id, supervisor_id, company_id) ==
    Append(pl, [user_id |-> user_id, supervisor_id |-> supervisor_id,
                company_id |-> company_id, deleted_at |-> NULL])

\* UpdateUserActive with the company stamp forgotten: SET status_laporan = 'active'.
UpdateUserActiveOnly(us, company_id, user_id) ==
    [i \in Ids(us) |->
        IF i = user_id THEN [us[i] EXCEPT !.status_laporan = "active"] ELSE us[i]]

\* UPDATE users SET status_laporan = 'active', company_id = ? WHERE id = ?
UpdateUserActive(us, company_id, user_id) ==
    [i \in Ids(us) |->
        IF i = user_id
        THEN [us[i] EXCEPT !.status_laporan = "active", !.company_id = company_id]
        ELSE us[i]]

\* UPDATE placements SET user_id = ?, supervisor_id = ?, company_id = ? WHERE id = ?
UpdatePlacement(pl, user_id, supervisor_id, company_id, id) ==
    [i \in Ids(pl) |->
        IF i = id
        THEN [pl[i] EXCEPT !.user_id = user_id, !.supervisor_id = supervisor_id,
                           !.company_id = company_id]
        ELSE pl[i]]

\* UPDATE users SET company_id = ? WHERE id = ?
UpdateUserCompany(us, company_id, user_id) ==
    [i \in Ids(us) |->
        IF i = user_id THEN [us[i] EXCEPT !.company_id = company_id] ELSE us[i]]

\* SELECT user_id FROM placements WHERE id = ?
SelectPlacementUser(pl, id) ==
    IF id \in Ids(pl) THEN <<pl[id].user_id>> ELSE <<>>

\* UpdateUserLocked with the company kept: SET status_laporan = 'locked'.
UpdateUserLockedOnly(us, user_id) ==
    [i \in Ids(us) |->
        IF i = user_id THEN [us[i] EXCEPT !.status_laporan = "locked"] ELSE us[i]]

\* UPDATE users SET status_laporan = 'locked', company_id = NULL WHERE id = ?
UpdateUserLocked(us, user_id) ==
    [i \in Ids(us) |->
        IF i = user_id
        THEN [us[i] EXCEPT !.status_laporan = "locked", !.company_id = NULL]
        ELSE us[i]]

\* UPDATE placements SET deleted_at = NOW() WHERE id = ?
SoftDeletePlacement(pl, id) ==
    [i \in Ids(pl) |-> IF i = id THEN [pl[i] EXCEPT !.deleted_at = NOW] ELSE pl[i]]

----------------------------------------------------------------------------
(* Placement handlers of the latest revision, each a whole request.        *)

\* POST /placements with the existing-placement check left out.
PostPlacementsUnchecked(auth, user_id, supervisor_id, company_id) ==
    LET op == "POST /placements"
        gate == Gate(auth, {"admin"})
    IN  /\ rev = Latest
        /\ UNCHANGED <<rev, companies, logbooks, tokens, uploads, procs>>
        /\ IF gate.status # 200
           THEN /\ resp' = Reply(op, gate.status, gate.error)
                /\ UNCHANGED <<users, placements>>
           ELSE IF user_id = NULL \/ supervisor_id = NULL \/ company_id = NULL
           THEN /\ resp' = Reply(op, 400, "Data tidak lengkap")
                /\ UNCHANGED <<users, placements>>
           ELSE /\ placements' =
                       InsertPlacement(placements, user_id, supervisor_id, company_id)
                /\ users' = UpdateUserActive(users, company_id, user_id)
                /\ resp' = Reply(op, 200, NoText)

\* POST /placements
PostPlacements(auth, user_id, supervisor_id, company_id) ==
    LET op == "POST /placements"
        gate == Gate(auth, {"admin"})
    IN  /\ rev = Latest
        /\ UNCHANGED <<rev, companies, logbooks, tokens, uploads, procs>>
        /\ IF gate.status # 200
           THEN /\ resp' = Reply(op, gate.status, gate.error)
                /\ UNCHANGED <<users, placements>>
           ELSE IF user_id = NULL \/ supervisor_id = NULL \/ company_id = NULL
           THEN /\ resp' = Reply(op, 400, "Data tidak lengkap")
                /\ UNCHANGED <<users, placements>>
           ELSE IF SelectActivePlacements(placements, user_id) # {}
           THEN /\ resp' = Reply(op, 400, "User sudah memiliki penempatan")
                /\ UNCHANGED <<users, placements>>
           ELSE /\ placements' =
                       InsertPlacement(placements, user_id, supervisor_id, company_id)
                /\ users' = UpdateUserActive(users, company_id, user_id)
                /\ resp' = Reply(op, 200, NoText)

\* PUT /placements/:id
PutPlacements(auth, id, user_id, supervisor_id, company_id) ==
    LET op == "PUT /placements/:id"
        gate == Gate(auth, {"admin"})
    IN  /\ rev = Latest
        /\ UNCHANGED <<rev, companies, logbooks, tokens, uploads, procs>>
        /\ IF gate.status # 200
           THEN /\ resp' = Reply(op, gate.status, gate.error)
                /\ UNCHANGED <<users, placements>>
           ELSE /\ placements' =
                       UpdatePlacement(placements, user_id, supervisor_id, company_id, id)
                /\ users' = UpdateUserCompany(users, company_id, user_id)
                /\ resp' = Reply(op, 200, NoText)

\* DELETE /placements/:id
DeletePlacements(auth, id) ==
    LET op == "DELETE /placements/:id"
        gate == Gate(auth, {"admin"})
        placement == SelectPlacementUser(placements, id)
    IN  /\ rev = Latest
        /\ UNCHANGED <<rev, companies, logbooks, tokens, uploads, procs>>
        /\ IF gate.status # 200
           THEN /\ resp' = Reply(op, gate.status, gate.error)
                /\ UNCHANGED <<users, placements>>
           ELSE /\ users' = IF Len(placement) > 0
                            THEN UpdateUserLocked(users, placement[1])
                            ELSE users
                /\ placements' = SoftDeletePlacement(placements, id)
                /\ resp' = Reply(op, 200, NoText)

----------------------------------------------------------------------------
(* User handlers of the latest revision.                                   *)

\* UPDATE users SET ..., username = ?, role = ?, company_id = ?[, password = ?]
\* WHERE id = ?   (company_id || null; the password only when one is sent)
UpdateUser(us, username, role, company_id, password, id) ==
    [i \in Ids(us) |->
        IF i = id
        THEN [us[i] EXCEPT !.username = username, !.role = role,
                           !.company_id = company_id,
                           !.password = IF password # NoText
                                        THEN Hash(password) ELSE @]
        ELSE us[i]]

\* PUT /users/:id
PutUsers(auth, id, username, role, company_id, password) ==
    LET op == "PUT /users/:id"
        gate == Gate(auth, {"admin"})
    IN  /\ rev = Latest
        /\ UNCHANGED <<rev, companies, placements, logbooks, tokens, uploads, procs>>
        /\ IF gate.status # 200
           THEN /\ resp' = Reply(op, gate.status, gate.error)
                /\ UNCHANGED users
           ELSE /\ users' = UpdateUser(users, username, role, company_id, password, id)
                /\ resp' = Reply(op, 200, NoText)

----------------------------------------------------------------------------
(* Company handlers of the latest revision.                                *)

\* UPDATE companies SET deleted_at = NOW() WHERE id = ?
SoftDeleteCompany(co, id) ==
    [i \in Ids(co) |-> IF i = id THEN [co[i] EXCEPT !.deleted_at = NOW] ELSE co[i]]

\* DELETE /companies/:id as it would be with verifyToken but without allow("admin").
DeleteCompaniesAnyRole(auth, id) ==
    LET op == "DELETE /companies/:id"
        gate == VerifyToken(auth)
    IN  /\ rev = Latest
        /\ UNCHANGED <<rev, users, placements, logbooks, tokens, uploads, procs>>
        /\ IF gate.status # 200
           THEN /\ resp' = Reply(op, gate.status, gate.error)
                /\ UNCHANGED companies
           ELSE /\ companies' = SoftDeleteCompany(companies, id)
                /\ resp' = Reply(op, 200, NoText)

\* DELETE /companies/:id
DeleteCompanies(auth, id) ==
    LET op == "DELETE /companies/:id"
        gate == Gate(auth, {"admin"})
    IN  /\ rev = Latest
        /\ UNCHANGED <<rev, users, placements, logbooks, tokens, uploads, procs>>
        /\ IF gate.status # 200
           THEN /\ resp' = Reply(op, gate.status, gate.error)
                /\ UNCHANGED companies
           ELSE /\ companies' = SoftDeleteCompany(companies, id)
                /\ resp' = Reply(op, 200, NoText)

----------------------------------------------------------------------------
(* Logbook: uploads, SQL statements and handlers.                          *)

\* A request without the multipart field bukti_foto.
NoFile == [type |-> "none", size |-> 0]

\* fileFilter: the extension and the MIME type must both be of the allowed ones.
FileAllowed(file) == file.type = "allowed"

\* limits.fileSize: 5 MB, counted here in MB.
FileSizeLimit == 5

\* storage.filename: a name no stored file has (time stamp and random suffix).
StoredName(dir) == Cardinality(dir) + 1

\* INSERT INTO logbooks (user_id, tanggal, kegiatan, bukti_foto, status[, kehadiran])
\* VALUES (?, ?, ?, ?, 'menunggu'[, ?])
InsertLogbook(lb, user_id, tanggal, kegiatan, bukti_foto, kehadiran) ==
    Append(lb, [user_id |-> user_id, tanggal |-> tanggal, kegiatan |-> kegiatan,
                bukti_foto |-> bukti_foto, status |-> "menunggu",
                kehadiran |-> kehadiran, deleted_at |-> NULL])

\* UpdateLogbookStatus as a one-way workflow: ... WHERE id = ? AND status = 'menunggu'
UpdateLogbookStatusOnce(lb, status, id) ==
    [i \in Ids(lb) |->
        IF i = id /\ lb[i].status = "menunggu"
        THEN [lb[i] EXCEPT !.status = status] ELSE lb[i]]

\* UPDATE logbooks SET status = ?, updated_at = NOW() WHERE id = ?
UpdateLogbookStatus(lb, status, id) ==
    [i \in Ids(lb) |-> IF i = id THEN [lb[i] EXCEPT !.status = status] ELSE lb[i]]

\* SelectOwnLogbook with the owner left out of the WHERE clause.
SelectLogbookById(lb, id, user_id) ==
    {i \in Ids(lb) : i = id}

\* SELECT id FROM logbooks WHERE id = ? AND user_id = ?
SelectOwnLogbook(lb, id, user_id) ==
    {i \in Ids(lb) : i = id /\ lb[i].user_id = user_id}

\* DELETE FROM logbooks WHERE id = ?: the row and its id are gone.
RemoveLogbook(lb, id) == [i \in Ids(lb) \ {id} |-> lb[i]]

\* UPDATE logbooks SET deleted_at = NOW() WHERE id = ?
SoftDeleteLogbook(lb, id) ==
    [i \in Ids(lb) |-> IF i = id THEN [lb[i] EXCEPT !.deleted_at = NOW] ELSE lb[i]]

\* POST /logbook of the latest revision: verifyToken, allow("peserta"),
\* upload.single("bukti_foto"), then the handler.  status is a status field in
\* the body, which the handler does not read.
PostLogbook(auth, kegiatan, tanggal, file, status) ==
    LET op == "POST /logbook"
        gate == Gate(auth, {"peserta"})
        bukti == IF file = NoFile THEN NULL ELSE StoredName(uploads)
    IN  /\ rev = Latest
        /\ UNCHANGED <<rev, users, companies, placements, tokens, procs>>
        /\ IF gate.status # 200
           THEN /\ resp' = Reply(op, gate.status, gate.error)
                /\ UNCHANGED <<logbooks, uploads>>
           ELSE IF file # NoFile /\ ~FileAllowed(file)
           THEN /\ resp' = Reply(op, 400,
                      "File type not allowed. Only images, PDF, and DOC files are allowed.")
                /\ UNCHANGED <<logbooks, uploads>>
           ELSE IF file # NoFile /\ file.size > FileSizeLimit
           THEN /\ resp' = Reply(op, 400, "File terlalu besar. Maksimal 5MB")
                /\ UNCHANGED <<logbooks, uploads>>
           ELSE /\ uploads' = IF file = NoFile THEN uploads ELSE uploads \cup {bukti}
                /\ IF kegiatan = NoText \/ tanggal = NULL
                   THEN /\ resp' = Reply(op, 400, "Kegiatan dan tanggal harus diisi")
                        /\ UNCHANGED logbooks
                   ELSE /\ logbooks' = InsertLogbook(logbooks, auth.id, tanggal,
                                                     kegiatan, bukti, NoText)
                        /\ resp' = Reply(op, 200, NoText)

\* PostLogbookEarlier storing the body's status when it carries one
\* (status || 'menunggu' as the value of the status column).
PostLogbookEarlierBodyStatus(user_id, kegiatan, tanggal, kehadiran, file, status) ==
    LET op == "POST /logbook"
        bukti_foto == IF file = NoFile THEN NULL ELSE StoredName(uploads)
        statusHadir == IF rev = "index.js:1676-1852" THEN NoText
                       ELSE IF kehadiran = NoText THEN "Hadir" ELSE kehadiran
        inserted == InsertLogbook(logbooks, user_id, tanggal, kegiatan,
                                  bukti_foto, statusHadir)
    IN  /\ rev \in Earlier
        /\ UNCHANGED <<rev, users, companies, placements, tokens, procs>>
        /\ uploads' = IF file = NoFile THEN uploads ELSE uploads \cup {bukti_foto}
        /\ logbooks' = IF status = NoText THEN inserted
                       ELSE UpdateLogbookStatus(inserted, status, Len(inserted))
        /\ resp' = Reply(op, 200, NoText)

\* POST /logbook of the earlier revisions: no token, the owner is the body's
\* user_id, nothing is validated; two of them store kehadiran || "Hadir".
PostLogbookEarlier(user_id, kegiatan, tanggal, kehadiran, file, status) ==
    LET op == "POST /logbook"
        bukti_foto == IF file = NoFile THEN NULL ELSE StoredName(uploads)
        statusHadir == IF rev = "index.js:1676-1852" THEN NoText
                       ELSE IF kehadiran = NoText THEN "Hadir" ELSE kehadiran
    IN  /\ rev \in Earlier
        /\ UNCHANGED <<rev, users, companies, placements, tokens, procs>>
        /\ uploads' = IF file = NoFile THEN uploads ELSE uploads \cup {bukti_foto}
        /\ logbooks' = InsertLogbook(logbooks, user_id, tanggal, kegiatan,
                                     bukti_foto, statusHadir)
        /\ resp' = Reply(op, 200, NoText)

\* PUT /logbook-status/:id of the latest revision
PutLogbookStatus(auth, id, status) ==
    LET op == "PUT /logbook-status/:id"
        gate == Gate(auth, {"admin", "supervisor"})
    IN  /\ rev = Latest
        /\ UNCHANGED <<rev, users, companies, placements, tokens, uploads, procs>>
        /\ IF gate.status # 200
           THEN /\ resp' = Reply(op, gate.status, gate.error)
                /\ UNCHANGED logbooks
           ELSE IF status \notin {"disetujui", "ditolak", "menunggu"}
           THEN /\ resp' = Reply(op, 400, "Status tidak valid")
                /\ UNCHANGED logbooks
           ELSE /\ logbooks' = UpdateLogbookStatus(logbooks, status, id)
                /\ resp' = Reply(op, 200, NoText)

NotYourLogbook ==
    Reply("DELETE /logbook/:id", 403,
          "Anda tidak memiliki izin untuk menghapus logbook ini")

\* DELETE /logbook/:id of the latest revision
DeleteLogbook(auth, id) ==
    LET op == "DELETE /logbook/:id"
        gate == Gate(auth, {"admin", "peserta"})
    IN  /\ rev = Latest
        /\ UNCHANGED <<rev, users, companies, placements, tokens, uploads, procs>>
        /\ IF gate.status # 200
           THEN /\ resp' = Reply(op, gate.status, gate.error)
                /\ UNCHANGED logbooks
           ELSE IF auth.role = "peserta" /\ SelectOwnLogbook(logbooks, id, auth.id) = {}
           THEN /\ resp' = NotYourLogbook
                /\ UNCHANGED logbooks
           ELSE /\ logbooks' = SoftDeleteLogbook(logbooks, id)
                /\ resp' = Reply(op, 200, NoText)

\* SELECT * FROM logbooks WHERE user_id = ?: GET /logbook/me as it would be
\* without AND deleted_at IS NULL.
LogbookMeAll(id) == {i \in Ids(logbooks) : logbooks[i].user_id = id}

\* GET /logbook/me for the participant whose token carries id: the ids of the
\* rows of SELECT * FROM logbooks WHERE user_id = ? AND deleted_at IS NULL.
LogbookMe(id) ==
    {i \in Ids(logbooks) : logbooks[i].user_id = id /\ logbooks[i].deleted_at = NULL}

\* GET /logbook/supervisor for the supervisor whose token carries id: the rows
\* of logbooks l JOIN users u JOIN placements p JOIN companies c, one row for
\* each logbook entry l and placement p that join, named <<l, p>>.
LogbookSupervisor(id) ==
    {r \in Ids(logbooks) \X Ids(placements) :
        LET l == logbooks[r[1]]
            p == placements[r[2]]
        IN  /\ l.user_id \in Ids(users)
            /\ users[l.user_id].deleted_at = NULL
            /\ p.user_id = l.user_id
            /\ p.deleted_at = NULL
            /\ p.company_id \in Ids(companies)
            /\ companies[p.company_id].deleted_at = NULL
            /\ p.supervisor_id = id
            /\ l.deleted_at = NULL}

----------------------------------------------------------------------------
(* Requests, with the sets their inputs are drawn from.                    *)

UsersOfRole(role) == {i \in Ids(users) : users[i].role = role}

AuthsOfRoles(roles) == {a \in Auths : a.kind = "valid" /\ a.role \in roles}

\* Path parameters: the ids in the table and one id that is not.
IdInputs(table) == 1..(Len(table) + 1)

Admins == AuthsOfRoles({"admin"})

Participants == UsersOfRole("peserta")

Supervisors == UsersOfRole("supervisor")

\* The first participant, for the requests that are answered without a look
\* at the participant they name.
OneParticipant == {i \in Participants : \A j \in Participants : i <= j}

\* Callers the admin routes turn away: no token, or a participant's token.
NonAdmins == {NoAuth} \cup {a \in AuthsOfRoles({"peserta"}) : a.id \in OneParticipant}

\* The first supervisor: the placement graph does not depend on which one.
OneSupervisor == {i \in Supervisors : \A j \in Supervisors : i <= j}

\* The history of a step: after a successful POST /placements, the new
\* placement's id, its participant and that participant's status and company
\* before the request; nothing after any other request.
Track ==
    hist' = IF resp'.op = "POST /placements" /\ resp'.status = 200
            THEN LET id == Len(placements')
                     u == placements'[id].user_id
                 IN  [id |-> id, user_id |-> u,
                      status_laporan |-> users[u].status_laporan,
                      company_id |-> users[u].company_id]
            ELSE NoHist

\* POST /placements by an admin for a participant, a supervisor and a company,
\* by an admin with one of the three fields missing (NULL), or by a caller
\* without a token.
DoPostPlacements ==
    /\ Len(placements) < MaxPlacements
    /\ \/ \E auth \in Admins, u \in Participants, s \in OneSupervisor,
             c \in Ids(companies) :
              PostPlacements(auth, u, s, c)
       \/ \E auth \in Admins, u \in OneParticipant, s \in OneSupervisor :
              \/ PostPlacements(auth, NULL, s, 1)
              \/ PostPlacements(auth, u, NULL, 1)
              \/ PostPlacements(auth, u, s, NULL)
       \/ \E auth \in {NoAuth}, u \in OneParticipant, s \in OneSupervisor :
              PostPlacements(auth, u, s, 1)
    /\ Track

DoPutPlacements ==
    /\ \/ \E auth \in Admins, id \in IdInputs(placements), u \in Participants,
             s \in OneSupervisor, c \in Ids(companies) :
              PutPlacements(auth, id, u, s, c)
       \/ \E auth \in {NoAuth}, u \in OneParticipant, s \in OneSupervisor :
              PutPlacements(auth, 1, u, s, 1)
    /\ Track

DoDeletePlacements ==
    /\ \/ \E auth \in Admins, id \in IdInputs(placements) : DeletePlacements(auth, id)
       \/ \E auth \in {NoAuth} : DeletePlacements(auth, 1)
    /\ Track

\* PUT /users/:id that edits the company reference of the first participant.
DoPutUsers ==
    /\ \/ \E auth \in Admins, id \in OneParticipant, c \in {NULL} \cup Ids(companies) :
              PutUsers(auth, id, users[id].username, users[id].role, c, NoText)
       \/ \E auth \in {NoAuth}, id \in OneParticipant :
              PutUsers(auth, id, users[id].username, users[id].role, NULL, NoText)
    /\ Track

Next ==
    \/ DoPutUsers
    \/ DoPostPlacements
    \/ DoPutPlacements
    \/ DoDeletePlacements

Spec == Init /\ [][Next]_vars

----------------------------------------------------------------------------
(* The placement graph (specification Spec).                               *)

ActivePlacements(u) == SelectActivePlacements(placements, u)

\* C1: in every state reached by completed admin requests POST, PUT and
\* DELETE on placements, each participant has at most one placement row with
\* deleted_at NULL.
C1_AtMostOneActivePlacement ==
    \A u \in Ids(users) : Cardinality(ActivePlacements(u)) <= 1

AlreadyPlaced == Reply("POST /placements", 400, "User sudah memiliki penempatan")

\* C2: POST /placements for a participant who has a placement with deleted_at
\* NULL is answered 400 "User sudah memiliki penempatan", inserts no placement
\* row and leaves every user row, so the participant's status_laporan and
\* company_id, as it was.
C2_AlreadyPlacedRejected ==
    [][\A auth \in Admins, u \in Participants, s \in Supervisors, c \in Ids(companies) :
          (/\ ActivePlacements(u) # {}
           /\ resp'.op = "POST /placements"
           /\ PostPlacements(auth, u, s, c))
              => /\ resp' = AlreadyPlaced
                 /\ placements' = placements
                 /\ users' = users]_vars

\* C2 happens: a POST /placements was answered AlreadyPlaced while some
\* participant holds an active placement.
C2_Witness ==
    /\ resp = AlreadyPlaced
    /\ \E u \in Participants : ActivePlacements(u) # {}

\* C4: a successful POST /placements for participant u, supervisor s and
\* company c appends exactly one placement row, binding u, s and c with
\* deleted_at NULL, changes no other placement row, and leaves u with
\* status_laporan 'active' and company_id c.
C4_CreateStampsParticipant ==
    [][\A auth \in Admins, u \in Participants, s \in Supervisors, c \in Ids(companies) :
          (/\ resp' = Reply("POST /placements", 200, NoText)
           /\ PostPlacements(auth, u, s, c))
              => /\ Len(placements') = Len(placements) + 1
                 /\ SubSeq(placements', 1, Len(placements)) = placements
                 /\ placements'[Len(placements')] =
                        [user_id |-> u, supervisor_id |-> s, company_id |-> c,
                         deleted_at |-> NULL]
                 /\ users'[u].status_laporan = "active"
                 /\ users'[u].company_id = c
                 /\ \A v \in Ids(users) \ {u} : users'[v] = users[v]]_vars

\* C4 happens: a POST /placements succeeded for a participant at the second
\* company.
C4_Witness ==
    /\ resp = Reply("POST /placements", 200, NoText)
    /\ hist.id = Len(placements)
    /\ placements[hist.id].company_id = 2
    /\ users[hist.user_id].status_laporan = "active"

\* A step that soft-deletes the non-deleted placement id by DELETE /placements/:id.
RemovalOf(id) ==
    /\ id \in Ids(placements)
    /\ placements[id].deleted_at = NULL
    /\ \E auth \in Admins : DeletePlacements(auth, id)

----------------------------------------------------------------------------
(* The logbook workflow (specification SpecLogbook).                       *)

\* Every caller: no token, or the token of a seeded user.
Callers == {NoAuth} \cup AuthsOfRoles(Roles)

KegiatanInputs == {NoText, "lab session"}

TanggalInputs == {NULL} \cup Dates

\* Status values a body may carry: the three of the workflow, one that is
\* none of them, and none at all.
StatusInputs == Statuses \cup {"selesai", NoText}

\* POST /logbook with today's date or none, by a participant or by a caller
\* the route turns away.
LbPostLogbook ==
    /\ Len(logbooks) < MaxLogbooks
    /\ \/ \E auth \in AuthsOfRoles({"peserta"}), kegiatan \in KegiatanInputs,
             tanggal \in {NULL, NOW}, status \in {NoText, "disetujui"} :
              PostLogbook(auth, kegiatan, tanggal, NoFile, status)
       \/ \E auth \in Callers \ AuthsOfRoles({"peserta"}) :
              PostLogbook(auth, "lab session", NOW, NoFile, NoText)
    /\ UNCHANGED hist

LbPutLogbookStatus ==
    /\ \/ \E auth \in AuthsOfRoles({"admin", "supervisor"}),
             id \in IdInputs(logbooks), status \in StatusInputs :
              PutLogbookStatus(auth, id, status)
       \/ \E auth \in Callers \ AuthsOfRoles({"admin", "supervisor"}) :
              PutLogbookStatus(auth, 1, "disetujui")
    /\ UNCHANGED hist

LbDeleteLogbook ==
    /\ \/ \E auth \in AuthsOfRoles({"admin", "peserta"}), id \in IdInputs(logbooks) :
              DeleteLogbook(auth, id)
       \/ \E auth \in Callers \ AuthsOfRoles({"admin", "peserta"}) :
              DeleteLogbook(auth, 1)
    /\ UNCHANGED hist

NextLogbook ==
    \/ LbPostLogbook
    \/ LbPutLogbookStatus
    \/ LbDeleteLogbook

SpecLogbook == Init /\ [][NextLogbook]_vars

\* C9: DELETE /logbook/:id by a participant who is not the entry's owner is
\* answered 403 and changes no entry; by the owner, or by any admin, it
\* soft-deletes the entry and changes no other.
C9_DeleteOwnOnly ==
    [][\A auth \in AuthsOfRoles({"admin", "peserta"}), id \in Ids(logbooks) :
          DeleteLogbook(auth, id)
              => IF auth.role = "peserta" /\ auth.id # logbooks[id].user_id
                 THEN /\ resp' = NotYourLogbook
                      /\ logbooks' = logbooks
                 ELSE /\ resp' = Reply("DELETE /logbook/:id", 200, NoText)
                      /\ logbooks'[id].deleted_at # NULL
                      /\ \A j \in Ids(logbooks) \ {id} : logbooks'[j] = logbooks[j]]_vars

\* C9 happens: a participant was refused the deletion of an entry that is
\* another participant's and is still there.
C9_Witness ==
    /\ resp = NotYourLogbook
    /\ \E id \in Ids(logbooks) : logbooks[id].deleted_at = NULL

\* The status GET /logbook/me shows the owner of entry i for that entry, or
\* NoText when the answer does not list the entry.
ShownStatus(i) ==
    IF i \in LogbookMe(logbooks[i].user_id) THEN logbooks[i].status ELSE NoText

StatusUpdated == Reply("PUT /logbook-status/:id", 200, NoText)

\* C13: for every entry, whatever its status, PUT /logbook-status/:id by an
\* admin or a supervisor with any of the three values succeeds and sets the
\* status to that value, the owner's GET /logbook/me then shows that value, and
\* the value shown changes only by a successful status update.
C13_FreelyReassignable ==
    [][\A i \in Ids(logbooks) :
          /\ \A auth \in AuthsOfRoles({"admin", "supervisor"}), v \in Statuses :
                 PutLogbookStatus(auth, i, v)
                     => /\ resp' = StatusUpdated
                        /\ logbooks'[i].status = v
                        /\ ShownStatus(i)' = v
          /\ (ShownStatus(i) # NoText /\ resp' # StatusUpdated)
                 => ShownStatus(i)' = ShownStatus(i)]_vars

\* C13 as amended: the same for an entry that is not deleted, and the value
\* shown changes only by a successful status update for as long as the entry
\* is not deleted.
C13_ReassignableWhileKept ==
    [][\A i \in Ids(logbooks) :
          /\ \A auth \in AuthsOfRoles({"admin", "supervisor"}), v \in Statuses :
                 (logbooks[i].deleted_at = NULL /\ PutLogbookStatus(auth, i, v))
                     => /\ resp' = StatusUpdated
                        /\ logbooks'[i].status = v
                        /\ ShownStatus(i)' = v
          /\ (/\ ShownStatus(i) # NoText
              /\ resp' # StatusUpdated
              /\ logbooks'[i].deleted_at = NULL)
                 => ShownStatus(i)' = ShownStatus(i)]_vars

\* C13 happens: a status update succeeded, and GET /logbook/me shows one entry
\* that was set to 'ditolak' and one that was set to 'disetujui'.
C13_Witness ==
    /\ resp = StatusUpdated
    /\ \E i, j \in Ids(logbooks) :
          /\ ShownStatus(i) = "ditolak"
          /\ ShownStatus(j) = "disetujui"

----------------------------------------------------------------------------
(* Supervision: logbook entries seen through the placement graph           *)
(* (specification SpecSupervision).                                        *)

SvPostLogbook ==
    /\ Len(logbooks) < MaxLogbooks
    /\ \E auth \in AuthsOfRoles({"peserta"}), tanggal \in Dates :
          PostLogbook(auth, "lab session", tanggal, NoFile, NoText)
    /\ UNCHANGED hist

SvPutLogbookStatus ==
    /\ \E auth \in AuthsOfRoles({"admin", "supervisor"}), id \in Ids(logbooks) :
          PutLogbookStatus(auth, id, "disetujui")
    /\ UNCHANGED hist

SvDeleteLogbook ==
    /\ \E auth \in AuthsOfRoles({"peserta"}), id \in Ids(logbooks) :
          DeleteLogbook(auth, id)
    /\ UNCHANGED hist

SvPostPlacements ==
    /\ Len(placements) < MaxPlacements
    /\ \E auth \in Admins, u \in Participants, s \in Supervisors :
          PostPlacements(auth, u, s, 1)
    /\ UNCHANGED hist

SvDeletePlacements ==
    /\ \E auth \in Admins, id \in Ids(placements) : DeletePlacements(auth, id)
    /\ UNCHANGED hist

SvDeleteCompanies ==
    /\ \E auth \in Admins : DeleteCompanies(auth, 1)
    /\ UNCHANGED hist

NextSupervision ==
    \/ SvPostLogbook
    \/ SvPutLogbookStatus
    \/ SvDeleteLogbook
    \/ SvPostPlacements
    \/ SvDeletePlacements
    \/ SvDeleteCompanies

SpecSupervision == Init /\ [][NextSupervision]_vars

\* A placement with deleted_at NULL links participant P to supervisor S.
Supervises(S, P) ==
    \E p \in Ids(placements) :
        /\ placements[p].deleted_at = NULL
        /\ placements[p].user_id = P
        /\ placements[p].supervisor_id = S

\* C7: PUT /logbook-status/:id by a supervisor changes the entry's status only
\* if a non-deleted placement links the entry's owner to that supervisor; from
\* any other supervisor the request is answered 403 and the entry is unchanged.
C7_SupervisorScoped ==
    [][\A auth \in AuthsOfRoles({"supervisor"}), id \in Ids(logbooks),
          status \in StatusInputs :
          (PutLogbookStatus(auth, id, status)
             /\ ~Supervises(auth.id, logbooks[id].user_id))
              => /\ resp'.status = 403
                 /\ logbooks' = logbooks]_vars

\* How many times GET /logbook/supervisor returns entry E to supervisor S.
TimesReturned(S, E) == Cardinality({r \in LogbookSupervisor(S) : r[1] = E})

\* C8: GET /logbook/supervisor for supervisor S returns a non-deleted entry E
\* exactly once if a placement with deleted_at NULL links E's owner to S, and
\* not at all otherwise; a deleted entry is never returned.
C8_SupervisorSeesExactly ==
    \A S \in Supervisors, E \in Ids(logbooks) :
        TimesReturned(S, E) =
            IF logbooks[E].deleted_at = NULL /\ Supervises(S, logbooks[E].user_id)
            THEN 1 ELSE 0

----------------------------------------------------------------------------
(* POST /logbook in every revision (specification SpecRev).                *)

InitRev ==
    /\ rev \in Revisions
    /\ InitDb

RevPostLogbook ==
    /\ Len(logbooks) < MaxLogbooks
    /\ \E auth \in Callers, kegiatan \in KegiatanInputs, tanggal \in TanggalInputs,
          status \in StatusInputs :
          PostLogbook(auth, kegiatan, tanggal, NoFile, status)
    /\ UNCHANGED hist

RevPostLogbookEarlier ==
    /\ Len(logbooks) < MaxLogbooks
    /\ \E user_id \in Ids(users), kegiatan \in KegiatanInputs,
          tanggal \in TanggalInputs, kehadiran \in {NoText, "Izin"},
          status \in StatusInputs :
          PostLogbookEarlier(user_id, kegiatan, tanggal, kehadiran, NoFile, status)
    /\ UNCHANGED hist

NextRev ==
    \/ RevPostLogbook
    \/ RevPostLogbookEarlier

SpecRev == InitRev /\ [][NextRev]_vars

\* C10: in every revision, every logbook entry a request creates has status
\* 'menunggu' right after the request, whatever the body carries.
C10_StartsPending ==
    [][\A i \in Ids(logbooks') \ Ids(logbooks) : logbooks'[i].status = "menunggu"]_vars

\* C10 happens: a POST /logbook of an earlier revision has just created an entry.
C10_Witness ==
    /\ rev \in Earlier
    /\ resp = Reply("POST /logbook", 200, NoText)
    /\ logbooks # <<>>
    /\ logbooks[Len(logbooks)].status = "menunggu"

----------------------------------------------------------------------------
(* Placement requests statement by statement: each await of a handler is   *)
(* a step of the worker serving the request, and the statements of         *)
(* requests in flight interleave (specifications SpecConc and SpecFail).   *)

Set(p, r) == [procs EXCEPT ![p] = r]

\* res.json / res.status(...).json: the request of worker p is answered.
Answer(p, status, error) ==
    /\ procs' = Set(p, [procs[p] EXCEPT !.pc = "done", !.status = status])
    /\ resp' = Reply(procs[p].op, status, error)

InFlight(pcs) == Cardinality({p \in Procs : procs[p].pc \in pcs})

\* POST /placements up to its first await: the middleware and the validation.
StartPostPlacements(p, auth, user_id, supervisor_id, company_id) ==
    LET op == "POST /placements"
        gate == Gate(auth, {"admin"})
        req == [IdleProc EXCEPT !.op = op, !.user_id = user_id,
                                !.supervisor_id = supervisor_id,
                                !.company_id = company_id]
    IN  /\ rev = Latest
        /\ procs[p].pc = "idle"
        /\ UNCHANGED <<rev, users, companies, placements, logbooks, tokens, uploads,
                       hist>>
        /\ IF gate.status # 200
           THEN /\ procs' = Set(p, [req EXCEPT !.pc = "done", !.status = gate.status])
                /\ resp' = Reply(op, gate.status, gate.error)
           ELSE IF user_id = NULL \/ supervisor_id = NULL \/ company_id = NULL
           THEN /\ procs' = Set(p, [req EXCEPT !.pc = "done", !.status = 400])
                /\ resp' = Reply(op, 400, "Data tidak lengkap")
           ELSE /\ procs' = Set(p, [req EXCEPT !.pc = "select"])
                /\ UNCHANGED resp

\* const [cek] = await pool.query("SELECT id FROM placements WHERE ...")
PostSelect(p) ==
    LET cek == SelectActivePlacements(placements, procs[p].user_id)
    IN  /\ procs[p].pc = "select"
        /\ UNCHANGED <<rev, users, companies, placements, logbooks, tokens, uploads,
                       hist>>
        /\ IF cek # {}
           THEN Answer(p, 400, "User sudah memiliki penempatan")
           ELSE /\ procs' = Set(p, [procs[p] EXCEPT !.pc = "insert", !.sel = cek])
                /\ UNCHANGED resp

\* const [result] = await pool.query("INSERT INTO placements ...")
PostInsert(p) ==
    /\ procs[p].pc = "insert"
    /\ placements' = InsertPlacement(placements, procs[p].user_id,
                                     procs[p].supervisor_id, procs[p].company_id)
    /\ procs' = Set(p, [procs[p] EXCEPT !.pc = "update"])
    /\ UNCHANGED <<rev, users, companies, logbooks, tokens, uploads, resp, hist>>

\* await pool.query("UPDATE users SET status_laporan = 'active', ..."); res.json
PostUpdate(p) ==
    /\ procs[p].pc = "update"
    /\ users' = UpdateUserActive(users, procs[p].company_id, procs[p].user_id)
    /\ Answer(p, 200, NoText)
    /\ UNCHANGED <<rev, companies, placements, logbooks, tokens, uploads, hist>>

\* DELETE /placements/:id up to its first await.  pre_users and pre_placements
\* keep the tables as they were when the request arrived (history only).
StartDeletePlacements(p, auth, id) ==
    LET op == "DELETE /placements/:id"
        gate == Gate(auth, {"admin"})
        req == [IdleProc EXCEPT !.op = op, !.id = id, !.pre_users = users,
                                !.pre_placements = placements]
    IN  /\ rev = Latest
        /\ procs[p].pc = "idle"
        /\ UNCHANGED <<rev, users, companies, placements, logbooks, tokens, uploads,
                       hist>>
        /\ IF gate.status # 200
           THEN /\ procs' = Set(p, [req EXCEPT !.pc = "done", !.status = gate.status])
                /\ resp' = Reply(op, gate.status, gate.error)
           ELSE /\ procs' = Set(p, [req EXCEPT !.pc = "del_select"])
                /\ UNCHANGED resp

\* const [placement] = await pool.query("SELECT user_id FROM placements WHERE id = ?")
DeleteSelect(p) ==
    LET placement == SelectPlacementUser(placements, procs[p].id)
    IN  /\ procs[p].pc = "del_select"
        /\ procs' = Set(p, [procs[p] EXCEPT
                               !.pc = IF Len(placement) > 0
                                      THEN "del_user" ELSE "del_placement",
                               !.sel = {placement[i] : i \in DOMAIN placement}])
        /\ UNCHANGED <<rev, users, companies, placements, logbooks, tokens, uploads,
                       resp, hist>>

\* await pool.query("UPDATE users SET status_laporan = 'locked', ...")
DeleteResetUser(p) ==
    /\ procs[p].pc = "del_user"
    /\ users' = UpdateUserLocked(users, CHOOSE u \in procs[p].sel : TRUE)
    /\ procs' = Set(p, [procs[p] EXCEPT !.pc = "del_placement"])
    /\ UNCHANGED <<rev, companies, placements, logbooks, tokens, uploads, resp, hist>>

\* await pool.query("UPDATE placements SET deleted_at = NOW() ..."); res.json
DeleteSoftDelete(p) ==
    /\ procs[p].pc = "del_placement"
    /\ placements' = SoftDeletePlacement(placements, procs[p].id)
    /\ Answer(p, 200, NoText)
    /\ UNCHANGED <<rev, users, companies, logbooks, tokens, uploads, hist>>

\* The statement worker p awaits is rejected by the database (a lost
\* connection, a timeout): the handler's catch answers 500.
StatementFails(p) ==
    /\ procs[p].pc \in {"select", "insert", "update",
                        "del_select", "del_user", "del_placement"}
    /\ Answer(p, 500, "Terjadi kesalahan server")
    /\ UNCHANGED <<rev, users, companies, placements, logbooks, tokens, uploads, hist>>

\* The worker takes the next request.
Finish(p) ==
    /\ procs[p].pc = "done"
    /\ procs' = Set(p, IdleProc)
    /\ UNCHANGED <<rev, users, companies, placements, logbooks, tokens, uploads, resp,
                   hist>>

\* A POST /placements arrives while fewer than MaxPlacements rows exist or
\* are about to be inserted.
ArrivePostPlacements(p) ==
    /\ Len(placements) + InFlight({"select", "insert"}) < MaxPlacements
    /\ \/ \E auth \in Admins, u \in {NULL} \cup Participants, s \in OneSupervisor,
             c \in Ids(companies) :
              StartPostPlacements(p, auth, u, s, c)
       \/ \E auth \in NonAdmins, u \in Participants, s \in OneSupervisor :
              StartPostPlacements(p, auth, u, s, 1)

ArriveDeletePlacements(p) ==
    \E auth \in Admins \cup NonAdmins, id \in IdInputs(placements) :
        StartDeletePlacements(p, auth, id)

\* Two workers serve POST /placements concurrently; no statement fails.
NextConc ==
    \E p \in Procs :
        \/ ArrivePostPlacements(p)
        \/ PostSelect(p)
        \/ PostInsert(p)
        \/ PostUpdate(p)
        \/ Finish(p)

SpecConc == Init /\ [][NextConc]_vars

\* C3: when two POST /placements for the same participant are served with
\* their statements interleaved, at most one of them succeeds and the
\* participant ends with at most one non-deleted placement.
C3_ConcurrentCreateOnce ==
    /\ \A u \in Participants : Cardinality(ActivePlacements(u)) <= 1
    /\ \A p \in Procs, q \in Procs :
          ~ /\ p # q
            /\ procs[p].pc = "done" /\ procs[p].op = "POST /placements"
            /\ procs[q].pc = "done" /\ procs[q].op = "POST /placements"
            /\ procs[p].user_id = procs[q].user_id
            /\ procs[p].status = 200 /\ procs[q].status = 200

\* One worker serves POST and DELETE /placements; any awaited statement may fail.
NextFail ==
    \/ ArrivePostPlacements(1)
    \/ PostSelect(1)
    \/ PostInsert(1)
    \/ PostUpdate(1)
    \/ ArriveDeletePlacements(1)
    \/ DeleteSelect(1)
    \/ DeleteResetUser(1)
    \/ DeleteSoftDelete(1)
    \/ StatementFails(1)
    \/ Finish(1)

SpecFail == Init /\ [][NextFail]_vars

\* C6: whenever a DELETE /placements/:id of a placement has been answered,
\* with 200 or after a failed statement with 500, either the placement is
\* soft-deleted and its participant is locked with no company, or the users
\* and placements tables are what they were when the request arrived.
C6_RemovalAtomic ==
    LET r == procs[1]
        P == r.pre_placements[r.id].user_id
    IN  (/\ r.pc = "done"
         /\ r.op = "DELETE /placements/:id"
         /\ r.status \in {200, 500}
         /\ r.id \in Ids(r.pre_placements))
            => \/ /\ placements[r.id].deleted_at # NULL
                  /\ users[P].status_laporan = "locked"
                  /\ users[P].company_id = NULL
               \/ /\ placements = r.pre_placements
                  /\ users = r.pre_users

----------------------------------------------------------------------------
(* The logbook routes of the revision src/index.js lines 1257-1674: no      *)
(* token, no validation, and DELETE removes the row.  A removed row stays   *)
(* in the sequence with deleted_at set, so that ids are not reused, and     *)
(* the statements of this revision pass over it.                            *)

Middle == "index.js:1257-1674"

\* A multipart field bukti_foto that multer stores.
Photo == [type |-> "allowed", size |-> 1]

\* UPDATE logbooks SET tanggal=?, kegiatan=?[, bukti_foto=?] WHERE id=?
UpdateLogbookContent(lb, tanggal, kegiatan, bukti_foto, id) ==
    [i \in Ids(lb) |->
        IF i = id /\ lb[i].deleted_at = NULL
        THEN [lb[i] EXCEPT !.tanggal = tanggal, !.kegiatan = kegiatan,
                           !.bukti_foto = IF bukti_foto # NULL THEN bukti_foto ELSE @]
        ELSE lb[i]]

\* UPDATE logbooks SET status=? WHERE id=?
UpdateLogbookStatusEarlier(lb, status, id) ==
    [i \in Ids(lb) |->
        IF i = id /\ lb[i].deleted_at = NULL
        THEN [lb[i] EXCEPT !.status = status] ELSE lb[i]]

\* DELETE FROM logbooks WHERE id=?
DeleteLogbookRow(lb, id) ==
    [i \in Ids(lb) |->
        IF i = id /\ lb[i].deleted_at = NULL
        THEN [lb[i] EXCEPT !.deleted_at = NOW] ELSE lb[i]]

\* PUT /logbook/:id of the revision Middle: the content of an entry.
PutLogbookEarlier(id, tanggal, kegiatan, file) ==
    LET filename == IF file = NoFile THEN NULL ELSE StoredName(uploads)
    IN  /\ rev = Middle
        /\ UNCHANGED <<rev, users, companies, placements, tokens, procs>>
        /\ uploads' = IF file = NoFile THEN uploads ELSE uploads \cup {filename}
        /\ logbooks' = UpdateLogbookContent(logbooks, tanggal, kegiatan, filename, id)
        /\ resp' = Reply("PUT /logbook/:id", 200, NoText)

\* PUT /logbook-status/:id of the revision Middle: the status of the body
\* goes into the column as it is.
PutLogbookStatusEarlier(id, status) ==
    /\ rev = Middle
    /\ UNCHANGED <<rev, users, companies, placements, tokens, uploads, procs>>
    /\ logbooks' = UpdateLogbookStatusEarlier(logbooks, status, id)
    /\ resp' = Reply("PUT /logbook-status/:id", 200, NoText)

\* DELETE /logbook/:id of the revision Middle
DeleteLogbookEarlier(id) ==
    /\ rev = Middle
    /\ UNCHANGED <<rev, users, companies, placements, tokens, uploads, procs>>
    /\ logbooks' = DeleteLogbookRow(logbooks, id)
    /\ resp' = Reply("DELETE /logbook/:id", 200, NoText)

----------------------------------------------------------------------------
(* The logbook operations of every revision (specification SpecStatus).    *)

Reviewers == AuthsOfRoles({"admin", "supervisor"})

StPostLogbook ==
    /\ Len(logbooks) < MaxLogbooks
    /\ \E auth \in AuthsOfRoles({"peserta"}), status \in {NoText, "disetujui"} :
          PostLogbook(auth, "lab session", NOW, NoFile, status)
    /\ UNCHANGED hist

StPostLogbookEarlier ==
    /\ Len(logbooks) < MaxLogbooks
    /\ \E user_id \in OneParticipant, status \in {NoText, "disetujui"} :
          PostLogbookEarlier(user_id, "lab session", NOW, NoText, NoFile, status)
    /\ UNCHANGED hist

\* PUT /logbook/:id, with a photo while the upload directory has room.
StPutLogbook ==
    /\ \E id \in IdInputs(logbooks) :
          \/ PutLogbookEarlier(id, NOW, "lab report", NoFile)
          \/ /\ Cardinality(uploads) < MaxUploads
             /\ PutLogbookEarlier(id, NOW, "lab report", Photo)
    /\ UNCHANGED hist

StPutLogbookStatus ==
    /\ \/ \E auth \in Reviewers, id \in IdInputs(logbooks), status \in StatusInputs :
              PutLogbookStatus(auth, id, status)
       \/ \E auth \in Callers \ Reviewers : PutLogbookStatus(auth, 1, "disetujui")
    /\ UNCHANGED hist

StPutLogbookStatusEarlier ==
    /\ \E id \in IdInputs(logbooks), status \in {"disetujui", "selesai", NoText} :
          PutLogbookStatusEarlier(id, status)
    /\ UNCHANGED hist

StDeleteLogbook ==
    /\ \E auth \in AuthsOfRoles({"admin", "peserta"}), id \in IdInputs(logbooks) :
          DeleteLogbook(auth, id)
    /\ UNCHANGED hist

StDeleteLogbookEarlier ==
    /\ \E id \in IdInputs(logbooks) : DeleteLogbookEarlier(id)
    /\ UNCHANGED hist

NextStatus ==
    \/ StPostLogbook
    \/ StPostLogbookEarlier
    \/ StPutLogbook
    \/ StPutLogbookStatus
    \/ StPutLogbookStatusEarlier
    \/ StDeleteLogbook
    \/ StDeleteLogbookEarlier

SpecStatus == InitRev /\ [][NextStatus]_vars

\* C11: PUT /logbook-status/:id with a status that is none of menunggu,
\* disetujui, ditolak, or with no status, is answered 400 and changes no
\* entry, in the latest revision and in the revision Middle.
C11_InvalidStatusRejected ==
    [][\A id \in Ids(logbooks), status \in StatusInputs \ Statuses :
          (\/ \E auth \in Reviewers : PutLogbookStatus(auth, id, status)
           \/ PutLogbookStatusEarlier(id, status))
              => /\ resp'.status = 400
                 /\ logbooks' = logbooks]_vars

\* C12: in every state reached by logbook creations, content updates, status
\* updates and deletions, the status of every logbook entry is one of
\* menunggu, disetujui, ditolak.
C12_StatusIsOneOfThree ==
    \A i \in Ids(logbooks) : logbooks[i].status \in Statuses

----------------------------------------------------------------------------
(* Login in every revision (specification SpecLogin).                      *)

\* SELECT * FROM users WHERE username = ?: the ids of the rows, in the order
\* of their ids.
SelectUsersByName(us, username) ==
    SelectSeq([i \in 1..Len(us) |-> i], LAMBDA i : us[i].username = username)

\* SelectActiveUsersByName with the filter on deleted_at forgotten.
SelectUsersNamed(us, username) ==
    SelectUsersByName(us, username)

\* SELECT * FROM users WHERE username = ? AND deleted_at IS NULL: the ids of
\* the rows, in the order of their ids.
SelectActiveUsersByName(us, username) ==
    SelectSeq([i \in 1..Len(us) |-> i],
              LAMBDA i : us[i].username = username /\ us[i].deleted_at = NULL)

\* UPDATE users SET deleted_at = NOW() WHERE id = ?
SoftDeleteUser(us, id) ==
    [i \in Ids(us) |-> IF i = id THEN [us[i] EXCEPT !.deleted_at = NOW] ELSE us[i]]

\* POST /login of the latest revision
PostLogin(username, password) ==
    LET op == "POST /login"
        rows == SelectActiveUsersByName(users, username)
    IN  /\ rev = Latest
        /\ UNCHANGED <<rev, companies, placements, logbooks, uploads, procs>>
        /\ IF username = NoText \/ password = NoText
           THEN /\ resp' = Reply(op, 400, "Username dan password harus diisi")
                /\ UNCHANGED <<users, tokens>>
           ELSE IF Len(rows) = 0
           THEN /\ resp' = Reply(op, 401, "Username tidak ditemukan")
                /\ UNCHANGED <<users, tokens>>
           ELSE IF ~Compare(password, users[rows[1]].password)
           THEN /\ resp' = Reply(op, 401, "Password salah")
                /\ UNCHANGED <<users, tokens>>
           ELSE /\ tokens' = tokens \cup {TokenOf(users, rows[1])}
                /\ users' = UpdateLastLogin(users, rows[1])
                /\ resp' = Reply(op, 200, NoText)

\* POST /login of the earlier revisions: no token and no last_login; a
\* missing password makes bcrypt.compare throw (500).  The revision Middle
\* and part_000 also accept a password that equals the stored column.
PostLoginEarlier(username, password) ==
    LET op == "POST /login"
        rows == SelectUsersByName(users, username)
        validPassword == Compare(password, users[rows[1]].password)
    IN  /\ rev \in Earlier
        /\ UNCHANGED <<rev, users, companies, placements, logbooks, tokens, uploads,
                       procs>>
        /\ resp' = IF Len(rows) = 0
                   THEN Reply(op, 401, "Username tidak ditemukan!")
                   ELSE IF password = NoText
                   THEN Reply(op, 500, "data and hash arguments required")
                   ELSE IF rev = "index.js:1676-1852"
                   THEN IF ~validPassword
                        THEN Reply(op, 401, "Password salah!")
                        ELSE Reply(op, 200, NoText)
                   ELSE IF ~validPassword /\ users[rows[1]].password # password
                        THEN Reply(op, 401, "Password salah!")
                        ELSE Reply(op, 200, NoText)

\* DELETE /users/:id of the latest revision
\* DELETE /users/:id as it would be without verifyToken and allow in front.
DeleteUsersOpen(auth, id) ==
    /\ rev = Latest
    /\ UNCHANGED <<rev, companies, placements, logbooks, tokens, uploads, procs>>
    /\ users' = SoftDeleteUser(users, id)
    /\ resp' = Reply("DELETE /users/:id", 200, NoText)

DeleteUsers(auth, id) ==
    LET op == "DELETE /users/:id"
        gate == Gate(auth, {"admin"})
    IN  /\ rev = Latest
        /\ UNCHANGED <<rev, companies, placements, logbooks, tokens, uploads, procs>>
        /\ IF gate.status # 200
           THEN /\ resp' = Reply(op, gate.status, gate.error)
                /\ UNCHANGED users
           ELSE /\ users' = SoftDeleteUser(users, id)
                /\ resp' = Reply(op, 200, NoText)

\* The database as seeded, before anybody has logged in, under any revision.
InitLogin ==
    /\ rev \in Revisions
    /\ users = SeedUsers
    /\ companies = SeedCompanies
    /\ placements = <<>>
    /\ logbooks = <<>>
    /\ tokens = {}
    /\ uploads = {}
    /\ resp = NoResp
    /\ procs = [p \in Procs |-> IdleProc]
    /\ hist = NoHist

\* Usernames a login submits: none, the admin's, the participants', nobody's.
UsernameInputs == {NoText, "admin", "amara", "budi", "nobody"}

\* Passwords a login submits: none, the seeded one, a wrong one, and the text
\* of the stored password column of the seeded users.
PasswordInputs == {NoText, "secret", "wrong", Hash("secret")}

LgPostLogin ==
    /\ \E username \in UsernameInputs, password \in PasswordInputs :
          PostLogin(username, password)
    /\ UNCHANGED hist

LgPostLoginEarlier ==
    /\ \E username \in UsernameInputs, password \in PasswordInputs :
          PostLoginEarlier(username, password)
    /\ UNCHANGED hist

LgDeleteUsers ==
    /\ \E auth \in Admins \cup {NoAuth}, id \in Participants : DeleteUsers(auth, id)
    /\ UNCHANGED hist

\* PUT /users/:id that gives the first participant another password.
LgPutUsers ==
    /\ \E auth \in Admins, id \in OneParticipant :
          PutUsers(auth, id, users[id].username, users[id].role, NULL, "wrong")
    /\ UNCHANGED hist

NextLogin ==
    \/ LgPostLogin
    \/ LgPostLoginEarlier
    \/ LgDeleteUsers
    \/ LgPutUsers

SpecLogin == InitLogin /\ [][NextLogin]_vars

\* A row that is not deleted has the username and stores the hash of the password.
Credential(username, password) ==
    \E i \in Ids(users) :
        /\ users[i].username = username
        /\ users[i].deleted_at = NULL
        /\ Compare(password, users[i].password)

\* C14: in the latest revision, POST /login with a username and password for
\* which no row that is not deleted has that username and stores the hash of
\* that password is answered 401, issues no token and changes no user row
\* (so no last_login).
C14_LoginOnlyWithCredential ==
    [][\A username \in UsernameInputs, password \in PasswordInputs :
          (~Credential(username, password) /\ PostLogin(username, password))
              => /\ resp'.status = 401
                 /\ tokens' = tokens
                 /\ users' = users]_vars

\* C14 as amended: such a login is answered 400 when the username or the
\* password is missing and 401 otherwise, issues no token and changes no user
\* row.
C14_LoginRefused ==
    [][\A username \in UsernameInputs, password \in PasswordInputs :
          (~Credential(username, password) /\ PostLogin(username, password))
              => /\ resp'.status =
                        IF username = NoText \/ password = NoText THEN 400 ELSE 401
                 /\ tokens' = tokens
                 /\ users' = users]_vars

\* C14 happens: the login of a soft-deleted participant was refused as not
\* found; the participant holds no token and has never logged in.
C14_Witness ==
    /\ rev = Latest
    /\ resp = Reply("POST /login", 401, "Username tidak ditemukan")
    /\ \E i \in Participants :
          /\ users[i].username \in UsernameInputs
          /\ users[i].deleted_at # NULL
          /\ users[i].last_login = NULL
          /\ \A t \in tokens : t.id # i

\* C15: in every revision, a login that succeeds submitted a password whose
\* hash is the stored password of a user row with the submitted username;
\* submitting the text of the stored column itself does not log in.
C15_NeverPlaintext ==
    [][\A username \in UsernameInputs, password \in PasswordInputs :
          (/\ PostLogin(username, password) \/ PostLoginEarlier(username, password)
           /\ resp'.status = 200)
              => \E i \in Ids(users) :
                    /\ users[i].username = username
                    /\ Compare(password, users[i].password)]_vars

----------------------------------------------------------------------------
(* The remaining routes of the latest revision.                            *)

MaxNewCompanies == 1

\* Users added to the seeded ones.
MaxNewUsers == 1

\* password.length < 6 of POST /register.
MinPasswordLength == 6

\* INSERT INTO users (..., username, password, role, status_laporan, company_id,
\* created_at) VALUES (..., ?, ?, ?, 'locked', ?, NOW()), with the hash of
\* the password and company_id || null.
InsertUser(us, username, password, role, company_id) ==
    Append(us, UserRow(username, password, role, company_id))

\* POST /users of the latest revision
PostUsers(auth, nama_lengkap, username, password, role, company_id) ==
    LET op == "POST /users"
        gate == Gate(auth, {"admin"})
        cek == SelectUsersByName(users, username)
    IN  /\ rev = Latest
        /\ UNCHANGED <<rev, companies, placements, logbooks, tokens, uploads, procs>>
        /\ IF gate.status # 200
           THEN /\ resp' = Reply(op, gate.status, gate.error)
                /\ UNCHANGED users
           ELSE IF \/ nama_lengkap = NoText \/ username = NoText
                   \/ password = NoText \/ role = NoText
           THEN /\ resp' = Reply(op, 400, "Data tidak lengkap")
                /\ UNCHANGED users
           ELSE IF Len(cek) > 0
           THEN /\ resp' = Reply(op, 400, "Username sudah dipakai")
                /\ UNCHANGED users
           ELSE /\ users' = InsertUser(users, username, password, role, company_id)
                /\ resp' = Reply(op, 200, NoText)

\* POST /register as it would be without the "Cek username sudah dipakai" query.
PostRegisterUnchecked(nama_lengkap, nim, jurusan, no_hp, username, password, role) ==
    LET op == "POST /register"
    IN  /\ rev = Latest
        /\ UNCHANGED <<rev, companies, placements, logbooks, tokens, uploads, procs>>
        /\ IF \/ nama_lengkap = NoText \/ nim = NoText \/ jurusan = NoText
              \/ no_hp = NoText \/ username = NoText \/ password = NoText
           THEN /\ resp' = Reply(op, 400, "Semua field harus diisi")
                /\ UNCHANGED users
           ELSE IF Len(password) < MinPasswordLength
           THEN /\ resp' = Reply(op, 400, "Password minimal 6 karakter")
                /\ UNCHANGED users
           ELSE /\ users' = InsertUser(users, username, password, "peserta", NULL)
                /\ resp' = Reply(op, 200, NoText)

\* POST /register as it would be if it stored the role of the body when the
\* body carries one.
PostRegisterBodyRole(nama_lengkap, nim, jurusan, no_hp, username, password, role) ==
    LET op == "POST /register"
        cek == SelectUsersByName(users, username)
    IN  /\ rev = Latest
        /\ UNCHANGED <<rev, companies, placements, logbooks, tokens, uploads, procs>>
        /\ IF \/ nama_lengkap = NoText \/ nim = NoText \/ jurusan = NoText
              \/ no_hp = NoText \/ username = NoText \/ password = NoText
           THEN /\ resp' = Reply(op, 400, "Semua field harus diisi")
                /\ UNCHANGED users
           ELSE IF Len(password) < MinPasswordLength
           THEN /\ resp' = Reply(op, 400, "Password minimal 6 karakter")
                /\ UNCHANGED users
           ELSE IF Len(cek) > 0
           THEN /\ resp' = Reply(op, 400, "Username sudah dipakai")
                /\ UNCHANGED users
           ELSE /\ users' = InsertUser(users, username, password,
                                   IF role = NoText THEN "peserta" ELSE role, NULL)
                /\ resp' = Reply(op, 200, NoText)

\* POST /register of the latest revision.  role is a role field in the body,
\* which the handler does not read.
PostRegister(nama_lengkap, nim, jurusan, no_hp, username, password, role) ==
    LET op == "POST /register"
        cek == SelectUsersByName(users, username)
    IN  /\ rev = Latest
        /\ UNCHANGED <<rev, companies, placements, logbooks, tokens, uploads, procs>>
        /\ IF \/ nama_lengkap = NoText \/ nim = NoText \/ jurusan = NoText
              \/ no_hp = NoText \/ username = NoText \/ password = NoText
           THEN /\ resp' = Reply(op, 400, "Semua field harus diisi")
                /\ UNCHANGED users
           ELSE IF Len(password) < MinPasswordLength
           THEN /\ resp' = Reply(op, 400, "Password minimal 6 karakter")
                /\ UNCHANGED users
           ELSE IF Len(cek) > 0
           THEN /\ resp' = Reply(op, 400, "Username sudah dipakai")
                /\ UNCHANGED users
           ELSE /\ users' = InsertUser(users, username, password, "peserta", NULL)
                /\ resp' = Reply(op, 200, NoText)

\* INSERT INTO companies (nama_perusahaan, alamat, kontak, created_at)
InsertCompany(co, nama_perusahaan) ==
    Append(co, CompanyRow(nama_perusahaan))

\* UPDATE companies SET nama_perusahaan = ?, ... WHERE id = ?
UpdateCompany(co, nama_perusahaan, id) ==
    [i \in Ids(co) |->
        IF i = id THEN [co[i] EXCEPT !.nama_perusahaan = nama_perusahaan] ELSE co[i]]

\* POST /companies
PostCompanies(auth, nama_perusahaan) ==
    LET op == "POST /companies"
        gate == Gate(auth, {"admin"})
    IN  /\ rev = Latest
        /\ UNCHANGED <<rev, users, placements, logbooks, tokens, uploads, procs>>
        /\ IF gate.status # 200
           THEN /\ resp' = Reply(op, gate.status, gate.error)
                /\ UNCHANGED companies
           ELSE IF nama_perusahaan = NoText
           THEN /\ resp' = Reply(op, 400, "Nama perusahaan harus diisi")
                /\ UNCHANGED companies
           ELSE /\ companies' = InsertCompany(companies, nama_perusahaan)
                /\ resp' = Reply(op, 200, NoText)

\* PUT /companies/:id
PutCompanies(auth, id, nama_perusahaan) ==
    LET op == "PUT /companies/:id"
        gate == Gate(auth, {"admin"})
    IN  /\ rev = Latest
        /\ UNCHANGED <<rev, users, placements, logbooks, tokens, uploads, procs>>
        /\ IF gate.status # 200
           THEN /\ resp' = Reply(op, gate.status, gate.error)
                /\ UNCHANGED companies
           ELSE /\ companies' = UpdateCompany(companies, nama_perusahaan, id)
                /\ resp' = Reply(op, 200, NoText)

\* The GET routes behind verifyToken and allow(...roles), with their roles.
ReadRoutes ==
    { [op |-> "GET /users/:role", roles |-> {"admin"}],
      [op |-> "GET /companies", roles |-> {"admin", "supervisor"}],
      [op |-> "GET /placements", roles |-> {"admin", "supervisor"}],
      [op |-> "GET /logbook/me", roles |-> {"peserta"}],
      [op |-> "GET /logbook/supervisor", roles |-> {"supervisor"}],
      [op |-> "GET /admin/stats", roles |-> {"admin"}],
      [op |-> "GET /supervisor/stats", roles |-> {"supervisor"}],
      [op |-> "GET /participant/stats", roles |-> {"peserta"}] }

\* A GET route: the middleware, then a SELECT and its rows (200).
\* A GET route as it would be if allow looked the caller up in users: the row
\* of the token's id must be there, not deleted, and carry the token's role.
GetCheckingUser(auth, route) ==
    LET gate == Gate(auth, route.roles)
        known == /\ auth.id \in Ids(users)
                 /\ users[auth.id].deleted_at = NULL
                 /\ users[auth.id].role = auth.role
    IN  /\ rev = Latest
        /\ UNCHANGED <<rev, users, companies, placements, logbooks, tokens, uploads,
                       procs>>
        /\ resp' = IF gate.status = 200 /\ ~known
                   THEN Reply(route.op, 403, "Akses ditolak")
                   ELSE Reply(route.op, gate.status, gate.error)

Get(auth, route) ==
    LET gate == Gate(auth, route.roles)
    IN  /\ rev = Latest
        /\ UNCHANGED <<rev, users, companies, placements, logbooks, tokens, uploads,
                       procs>>
        /\ resp' = Reply(route.op, gate.status, gate.error)

\* GET /auth/me: verifyToken only, then the row of the token's id.
GetAuthMe(auth) ==
    LET op == "GET /auth/me"
        gate == VerifyToken(auth)
    IN  /\ rev = Latest
        /\ UNCHANGED <<rev, users, companies, placements, logbooks, tokens, uploads,
                       procs>>
        /\ resp' = IF gate.status # 200 THEN Reply(op, gate.status, gate.error)
                   ELSE IF auth.id \notin Ids(users)
                   THEN Reply(op, 404, "User tidak ditemukan")
                   ELSE Reply(op, 200, NoText)

----------------------------------------------------------------------------
(* The callers of the latest revision's routes, and one request of each    *)
(* route for a caller to make.                                             *)

\* Callers verifyToken turns away.
Unverified == {NoAuth, ExpiredAuth, MalformedAuth}

\* One caller of each role: the admin, the first supervisor, the first participant.
OneOfEachRole ==
    Admins \cup {a \in AuthsOfRoles({"supervisor", "peserta"}) :
                    a.id \in OneSupervisor \cup OneParticipant}

AnyCaller == Unverified \cup OneOfEachRole

\* The callers that are not an admin.
NotAdmin == AnyCaller \ Admins

\* The requests of a caller, one for each write route on users, companies and
\* placements, aimed at the first participant, the first company and the
\* first placement.
AdminWrite(auth) ==
    \E u \in OneParticipant, s \in OneSupervisor :
        \/ PostUsers(auth, "Citra", "citra", "secret", "peserta", NULL)
        \/ PutUsers(auth, u, users[u].username, users[u].role, NULL, NoText)
        \/ DeleteUsers(auth, u)
        \/ PostCompanies(auth, "PT C")
        \/ PutCompanies(auth, 1, "PT A")
        \/ DeleteCompanies(auth, 1)
        \/ PostPlacements(auth, u, s, 1)
        \/ PutPlacements(auth, 1, u, s, 1)
        \/ DeletePlacements(auth, 1)

\* The requests of a caller on the logbook write routes and on the GET routes.
OtherRequest(auth) ==
    \/ PostLogbook(auth, "lab session", NOW, NoFile, NoText)
    \/ PutLogbookStatus(auth, 1, "disetujui")
    \/ DeleteLogbook(auth, 1)
    \/ \E route \in ReadRoutes : Get(auth, route)
    \/ GetAuthMe(auth)

----------------------------------------------------------------------------
(* Every protected route of the latest revision, called without a verified *)
(* token (specification SpecAuth).  The admin places the first participant *)
(* and the participant writes logbook entries, so that there are rows of   *)
(* every table for the unverified callers to aim at.                       *)

AuUsers ==
    /\ \E auth \in Unverified, u \in OneParticipant :
          \/ PostUsers(auth, "Citra", "citra", "secret", "peserta", NULL)
          \/ PutUsers(auth, u, users[u].username, users[u].role, NULL, NoText)
          \/ DeleteUsers(auth, u)
    /\ UNCHANGED hist

AuCompanies ==
    /\ \E auth \in Unverified :
          \/ PostCompanies(auth, "PT C")
          \/ PutCompanies(auth, 1, "PT A")
          \/ DeleteCompanies(auth, 1)
    /\ UNCHANGED hist

AuPostPlacements ==
    /\ Len(placements) < MaxPlacements
    /\ \E auth \in Unverified \cup Admins, u \in OneParticipant, s \in OneSupervisor :
          PostPlacements(auth, u, s, 1)
    /\ UNCHANGED hist

AuPlacements ==
    /\ \E auth \in Unverified, u \in OneParticipant, s \in OneSupervisor :
          \/ PutPlacements(auth, 1, u, s, 1)
          \/ DeletePlacements(auth, 1)
    /\ UNCHANGED hist

AuPostLogbook ==
    /\ Len(logbooks) < MaxLogbooks
    /\ \E auth \in Unverified \cup (OneOfEachRole \ Admins) :
          PostLogbook(auth, "lab session", NOW, NoFile, NoText)
    /\ UNCHANGED hist

AuLogbook ==
    /\ \E auth \in Unverified :
          \/ PutLogbookStatus(auth, 1, "disetujui")
          \/ DeleteLogbook(auth, 1)
    /\ UNCHANGED hist

AuGet ==
    /\ \E auth \in Unverified, route \in ReadRoutes : Get(auth, route)
    /\ UNCHANGED hist

AuGetAuthMe ==
    /\ \E auth \in Unverified : GetAuthMe(auth)
    /\ UNCHANGED hist

NextAuth ==
    \/ AuUsers
    \/ AuCompanies
    \/ AuPostPlacements
    \/ AuPlacements
    \/ AuPostLogbook
    \/ AuLogbook
    \/ AuGet
    \/ AuGetAuthMe

SpecAuth == Init /\ [][NextAuth]_vars

----------------------------------------------------------------------------
(* The write routes on users, companies and placements, called by every    *)
(* kind of caller (specification SpecRoles).  Updates and deletions come   *)
(* from the callers that are not an admin, so that the rows the admin      *)
(* created stay in place for them to aim at.                               *)

RoPostUsers ==
    /\ \E auth \in AnyCaller :
          PostUsers(auth, "Citra", "citra", "secret", "peserta", NULL)
    /\ UNCHANGED hist

RoPutUsers ==
    /\ \E auth \in NotAdmin, u \in OneParticipant :
          PutUsers(auth, u, users[u].username, users[u].role, NULL, NoText)
    /\ UNCHANGED hist

RoDeleteUsers ==
    /\ \E auth \in NotAdmin, u \in OneParticipant : DeleteUsers(auth, u)
    /\ UNCHANGED hist

RoPostCompanies ==
    /\ Len(companies) < Len(SeedCompanies) + MaxNewCompanies
    /\ \E auth \in AnyCaller : PostCompanies(auth, "PT C")
    /\ UNCHANGED hist

RoPutCompanies ==
    /\ \E auth \in NotAdmin : PutCompanies(auth, 1, "PT A")
    /\ UNCHANGED hist

RoDeleteCompanies ==
    /\ \E auth \in NotAdmin : DeleteCompanies(auth, 1)
    /\ UNCHANGED hist

RoPostPlacements ==
    /\ Len(placements) < MaxPlacements
    /\ \E auth \in AnyCaller, u \in OneParticipant, s \in OneSupervisor :
          PostPlacements(auth, u, s, 1)
    /\ UNCHANGED hist

RoPutPlacements ==
    /\ \E auth \in NotAdmin, u \in OneParticipant, s \in OneSupervisor :
          PutPlacements(auth, 1, u, s, 1)
    /\ UNCHANGED hist

RoDeletePlacements ==
    /\ \E auth \in NotAdmin : DeletePlacements(auth, 1)
    /\ UNCHANGED hist

NextRoles ==
    \/ RoPostUsers
    \/ RoPutUsers
    \/ RoDeleteUsers
    \/ RoPostCompanies
    \/ RoPutCompanies
    \/ RoDeleteCompanies
    \/ RoPostPlacements
    \/ RoPutPlacements
    \/ RoDeletePlacements

SpecRoles == Init /\ [][NextRoles]_vars

\* The write routes on users, companies and placements.
AdminWriteOps ==
    {"POST /users", "PUT /users/:id", "DELETE /users/:id",
     "POST /companies", "PUT /companies/:id", "DELETE /companies/:id",
     "POST /placements", "PUT /placements/:id", "DELETE /placements/:id"}

\* C16: in the latest revision a request to any protected route with no
\* Authorization header, an expired token or a malformed token is answered by
\* verifyToken (its status and its message, 401 or 403) and changes no user,
\* company, placement or logbook row (nor a stored file or an issued token).
C16_UnverifiedRejected ==
    [][\A auth \in Unverified :
          (AdminWrite(auth) \/ OtherRequest(auth)) =>
              /\ resp'.status = VerifyToken(auth).status
              /\ resp'.error = VerifyToken(auth).error
              /\ resp'.status \in {401, 403}
              /\ UNCHANGED <<users, companies, placements, logbooks, uploads, tokens>>]_vars

\* An expired token was turned away from DELETE /users/:id while a placement
\* and a logbook entry were in the tables.
C16_Witness ==
    /\ resp = Reply("DELETE /users/:id", 403, "Token expired")
    /\ \E i \in DOMAIN placements : placements[i].deleted_at = NULL
    /\ \E i \in DOMAIN logbooks : logbooks[i].deleted_at = NULL
    /\ \A u \in OneParticipant : users[u].deleted_at = NULL

\* C17 as stated: a caller who is not an admin changes no user, company or
\* placement and gets 403, and a request that resolved no identity gets 401.
C17_NonAdminDenied ==
    [][\A auth \in NotAdmin :
          AdminWrite(auth) =>
              /\ UNCHANGED <<users, companies, placements>>
              /\ resp'.status = IF auth \in Unverified THEN 401 ELSE 403]_vars

\* C17 amended: a caller whose token carries a role other than admin gets 403
\* from allow, a request without an Authorization header gets 401, a request
\* whose token is expired or malformed gets 403 from verifyToken; none of
\* them changes a user, company or placement.
C17_NonAdminDeniedByGate ==
    [][\A auth \in NotAdmin :
          AdminWrite(auth) =>
              /\ UNCHANGED <<users, companies, placements>>
              /\ resp'.status = IF auth = NoAuth THEN 401 ELSE 403
              /\ auth \notin Unverified =>
                    resp'.error = Allow(auth, {"admin"}).error]_vars

\* A supervisor or participant was denied on a write route while a placement
\* was in the table.
C17_Witness ==
    /\ resp.op \in AdminWriteOps
    /\ resp.status = 403
    /\ resp.error = "Akses ditolak - Anda tidak memiliki izin yang diperlukan"
    /\ \E i \in DOMAIN placements : placements[i].deleted_at = NULL

----------------------------------------------------------------------------
(* The user operations of the latest revision: POST /register, POST /users,*)
(* PUT /users/:id and DELETE /users/:id (specification SpecUsers).         *)

\* Usernames a registration or an admin submits: two of seeded participants,
\* one nobody has, and none.
NewUsernames == {"amara", "budi", "citra", NoText}

\* A username is taken when a row with deleted_at NULL carries it.
Taken(username) ==
    \E i \in Ids(users) : users[i].username = username /\ users[i].deleted_at = NULL

UsPostRegister ==
    /\ \E username \in NewUsernames, password \in {"secret", "wrong"} :
          PostRegister("Citra", "2201", "Informatika", "0812", username, password, NoText)
    /\ Len(users') <= Len(SeedUsers) + MaxNewUsers
    /\ UNCHANGED hist

UsPostUsers ==
    /\ \E auth \in Admins \cup {NoAuth}, username \in NewUsernames :
          PostUsers(auth, "Citra", username, "secret", "peserta", NULL)
    /\ Len(users') <= Len(SeedUsers) + MaxNewUsers
    /\ UNCHANGED hist

UsPutUsers ==
    /\ \E auth \in Admins \cup {NoAuth}, id \in Participants,
          username \in NewUsernames \ {NoText} :
          PutUsers(auth, id, username, users[id].role, users[id].company_id, NoText)
    /\ UNCHANGED hist

UsDeleteUsers ==
    /\ \E auth \in Admins \cup {NoAuth}, id \in Participants : DeleteUsers(auth, id)
    /\ UNCHANGED hist

NextUsers ==
    \/ UsPostRegister
    \/ UsPostUsers
    \/ UsPutUsers
    \/ UsDeleteUsers

SpecUsers == Init /\ [][NextUsers]_vars

\* C18: POST /register, and POST /users by an admin, with the username of an
\* existing user whose deleted_at is NULL answer 400 and insert no user row;
\* when nothing else is wrong with the request the message is "Username sudah
\* dipakai".
C18_DuplicateUsernameRejected ==
    [][\A username \in NewUsernames \ {NoText} :
          Taken(username) =>
              /\ \A password \in {"secret", "wrong"} :
                    PostRegister("Citra", "2201", "Informatika", "0812",
                                 username, password, NoText) =>
                        /\ resp'.status = 400
                        /\ users' = users
                        /\ Len(password) >= MinPasswordLength =>
                              resp'.error = "Username sudah dipakai"
              /\ \A auth \in Admins :
                    PostUsers(auth, "Citra", username, "secret", "peserta", NULL) =>
                        /\ resp' = Reply("POST /users", 400, "Username sudah dipakai")
                        /\ users' = users]_vars

\* A registration was refused for its username after an earlier one had
\* added a user.
C18_Witness ==
    /\ resp = Reply("POST /register", 400, "Username sudah dipakai")
    /\ Len(users) > Len(SeedUsers)

\* C19: no two users with deleted_at NULL have the same username.
C19_UniqueUsernames ==
    \A i, j \in Ids(users) :
        (i # j /\ users[i].deleted_at = NULL /\ users[j].deleted_at = NULL)
            => users[i].username # users[j].username

----------------------------------------------------------------------------
(* The requests the latest revision answers with a 4xx status, next to the *)
(* ones that succeed (specification SpecErrors).                           *)

\* A multipart field bukti_foto that fileFilter turns away.
Script == [type |-> "other", size |-> 1]

\* A multipart field bukti_foto larger than limits.fileSize.
Video == [type |-> "allowed", size |-> FileSizeLimit + 1]

\* The callers of the logbook routes: no token, a token of each participant,
\* the admin's token.
LogbookCallers == {NoAuth} \cup AuthsOfRoles({"peserta", "admin"})

ErPostLogbook ==
    /\ \E auth \in {NoAuth} \cup {a \in AuthsOfRoles({"peserta"}) : a.id \in OneParticipant},
          kegiatan \in {NoText, "lab session"}, tanggal \in {NULL, NOW},
          file \in {NoFile, Photo, Script, Video} :
          PostLogbook(auth, kegiatan, tanggal, file, NoText)
    /\ Len(logbooks') <= MaxLogbooks
    /\ Cardinality(uploads') <= MaxUploads
    /\ UNCHANGED hist

ErPutLogbookStatus ==
    /\ \E auth \in LogbookCallers, status \in {"ditolak", "selesai", NoText} :
          PutLogbookStatus(auth, 1, status)
    /\ UNCHANGED hist

ErDeleteLogbook ==
    /\ \E auth \in LogbookCallers \ Admins : DeleteLogbook(auth, 1)
    /\ UNCHANGED hist

ErPostUsers ==
    /\ \E auth \in NotAdmin \cup Admins, username \in {"amara", NoText} :
          PostUsers(auth, "Citra", username, "secret", "peserta", NULL)
    /\ UNCHANGED hist

ErPostRegister ==
    /\ \E nim \in {NoText, "2201"}, username \in {"amara", "citra"},
          password \in {"secret", "wrong"} :
          PostRegister("Citra", nim, "Informatika", "0812", username, password, NoText)
    /\ Len(users') <= Len(SeedUsers) + MaxNewUsers
    /\ UNCHANGED hist

ErPostCompanies ==
    /\ \E auth \in NotAdmin \cup Admins : PostCompanies(auth, NoText)
    /\ UNCHANGED hist

ErPostPlacements ==
    /\ \E auth \in NotAdmin \cup Admins, u \in OneParticipant,
          s \in OneSupervisor \cup {NULL} :
          PostPlacements(auth, u, s, 1)
    /\ Len(placements') <= MaxPlacements
    /\ UNCHANGED hist

ErPostLogin ==
    /\ \E username \in {NoText, "amara", "nobody"}, password \in {"secret", "wrong"} :
          PostLogin(username, password)
    /\ UNCHANGED hist

ErGet ==
    /\ \E auth \in NotAdmin, route \in ReadRoutes : Get(auth, route)
    /\ UNCHANGED hist

NextErrors ==
    \/ ErPostLogbook
    \/ ErPutLogbookStatus
    \/ ErDeleteLogbook
    \/ ErPostUsers
    \/ ErPostRegister
    \/ ErPostCompanies
    \/ ErPostPlacements
    \/ ErPostLogin
    \/ ErGet

SpecErrors == Init /\ [][NextErrors]_vars

\* C20: in the latest revision a request answered with a 4xx status has
\* changed nothing: the rows of every table and the files of the upload
\* directory are the ones from before the request.
C20_NoMutationOn4xx ==
    [][(resp'.status >= 400 /\ resp'.status < 500) =>
          UNCHANGED <<users, companies, placements, logbooks, uploads>>]_vars

----------------------------------------------------------------------------
(* The logbook lists and the supervisor's counts of the latest revision    *)
(* (specification SpecRead).                                               *)

\* res.json({success: true, data}): a 200 answer with a body.
ReplyData(op, data) == [op |-> op, status |-> 200, error |-> NoText, data |-> data]

\* ORDER BY tanggal DESC, created_at DESC on logbook ids: entry a comes no
\* later than entry b.  created_at is NOW() of the INSERT, so it grows with
\* the AUTO_INCREMENT id.
ComesFirst(a, b) ==
    \/ logbooks[a].tanggal > logbooks[b].tanggal
    \/ logbooks[a].tanggal = logbooks[b].tanggal /\ a >= b

\* The rows S of a SELECT on logbooks, given by their ids, in the order of
\* ORDER BY tanggal DESC, created_at DESC.
RECURSIVE OrderByTanggalDesc(_)
OrderByTanggalDesc(S) ==
    IF S = {} THEN << >>
    ELSE LET first == CHOOSE a \in S : \A b \in S : ComesFirst(a, b)
         IN  <<logbooks[first]>> \o OrderByTanggalDesc(S \ {first})

\* The joined rows S of GET /logbook/supervisor, given as <<l, p>>, in the
\* order of ORDER BY l.tanggal DESC, l.created_at DESC; rows of one entry l
\* come in any order, here by p.
RECURSIVE OrderJoinedByTanggalDesc(_)
OrderJoinedByTanggalDesc(S) ==
    IF S = {} THEN << >>
    ELSE LET first == CHOOSE r \in S :
                          \A q \in S : \/ r[1] # q[1] /\ ComesFirst(r[1], q[1])
                                       \/ r[1] = q[1] /\ r[2] >= q[2]
         IN  <<logbooks[first[1]]>> \o OrderJoinedByTanggalDesc(S \ {first})

\* GET /logbook/me
GetLogbookMe(auth) ==
    LET op == "GET /logbook/me"
        gate == Gate(auth, {"peserta"})
    IN  /\ rev = Latest
        /\ UNCHANGED <<rev, users, companies, placements, logbooks, tokens, uploads, procs>>
        /\ resp' = IF gate.status # 200
                   THEN Reply(op, gate.status, gate.error)
                   ELSE ReplyData(op, OrderByTanggalDesc(LogbookMe(auth.id)))

\* GET /logbook/supervisor
GetLogbookSupervisor(auth) ==
    LET op == "GET /logbook/supervisor"
        gate == Gate(auth, {"supervisor"})
    IN  /\ rev = Latest
        /\ UNCHANGED <<rev, users, companies, placements, logbooks, tokens, uploads, procs>>
        /\ resp' = IF gate.status # 200
                   THEN Reply(op, gate.status, gate.error)
                   ELSE ReplyData(op, OrderJoinedByTanggalDesc(LogbookSupervisor(auth.id)))

\* SELECT COUNT(DISTINCT p.user_id) FROM placements p
\* WHERE p.supervisor_id = ? AND p.deleted_at IS NULL
CountParticipants(id) ==
    Cardinality({placements[p].user_id : p \in
                    {q \in Ids(placements) : /\ placements[q].supervisor_id = id
                                             /\ placements[q].deleted_at = NULL}})

\* SELECT COUNT(*) FROM logbooks l JOIN placements p ON l.user_id = p.user_id
\* WHERE p.supervisor_id = ? AND l.deleted_at IS NULL
CountLogbooks(id) ==
    Cardinality({r \in Ids(logbooks) \X Ids(placements) :
                    /\ logbooks[r[1]].user_id = placements[r[2]].user_id
                    /\ placements[r[2]].supervisor_id = id
                    /\ logbooks[r[1]].deleted_at = NULL})

\* SELECT COUNT(*) FROM logbooks l JOIN placements p ON l.user_id = p.user_id
\* WHERE p.supervisor_id = ? AND l.status = 'menunggu' AND l.deleted_at IS NULL
CountPending(id) ==
    Cardinality({r \in Ids(logbooks) \X Ids(placements) :
                    /\ logbooks[r[1]].user_id = placements[r[2]].user_id
                    /\ placements[r[2]].supervisor_id = id
                    /\ logbooks[r[1]].status = "menunggu"
                    /\ logbooks[r[1]].deleted_at = NULL})

\* The body of GET /supervisor/stats for the supervisor whose token carries id.
SupervisorStats(id) ==
    [total_peserta |-> CountParticipants(id),
     total_logbooks |-> CountLogbooks(id),
     perlu_disetujui |-> CountPending(id)]

\* GET /supervisor/stats
GetSupervisorStats(auth) ==
    LET op == "GET /supervisor/stats"
        gate == Gate(auth, {"supervisor"})
    IN  /\ rev = Latest
        /\ UNCHANGED <<rev, users, companies, placements, logbooks, tokens, uploads, procs>>
        /\ resp' = IF gate.status # 200
                   THEN Reply(op, gate.status, gate.error)
                   ELSE ReplyData(op, SupervisorStats(auth.id))

\* The first participant's token, the first supervisor's token.
ParticipantCaller == OneOfEachRole \cap AuthsOfRoles({"peserta"})

SupervisorCaller == OneOfEachRole \cap AuthsOfRoles({"supervisor"})

\* The activity dates a participant submits: today and the day after.
Tanggal == {NOW, NOW + 1}

RdPostPlacements ==
    /\ Len(placements) < MaxPlacements
    /\ \E auth \in Admins, u \in OneParticipant, s \in OneSupervisor :
          PostPlacements(auth, u, s, 1)
    /\ UNCHANGED hist

RdDeletePlacements ==
    /\ \E auth \in Admins : DeletePlacements(auth, 1)
    /\ UNCHANGED hist

RdPostLogbook ==
    /\ Len(logbooks) < MaxLogbooks
    /\ \E auth \in ParticipantCaller, tanggal \in Tanggal :
          PostLogbook(auth, "lab session", tanggal, NoFile, NoText)
    /\ UNCHANGED hist

RdPutLogbookStatus ==
    /\ \E auth \in SupervisorCaller, id \in Ids(logbooks) :
          PutLogbookStatus(auth, id, "disetujui")
    /\ UNCHANGED hist

RdDeleteLogbook ==
    /\ \E auth \in ParticipantCaller, id \in Ids(logbooks) : DeleteLogbook(auth, id)
    /\ UNCHANGED hist

RdGetLogbookMe ==
    /\ \E auth \in ParticipantCaller \cup {NoAuth} : GetLogbookMe(auth)
    /\ UNCHANGED hist

RdGetLogbookSupervisor ==
    /\ \E auth \in SupervisorCaller \cup {NoAuth} : GetLogbookSupervisor(auth)
    /\ UNCHANGED hist

RdGetSupervisorStats ==
    /\ \E auth \in SupervisorCaller \cup {NoAuth} : GetSupervisorStats(auth)
    /\ UNCHANGED hist

NextRead ==
    \/ RdPostPlacements
    \/ RdDeletePlacements
    \/ RdPostLogbook
    \/ RdPutLogbookStatus
    \/ RdDeleteLogbook
    \/ RdGetLogbookMe
    \/ RdGetLogbookSupervisor
    \/ RdGetSupervisorStats

SpecRead == Init /\ [][NextRead]_vars

\* The body of the last answer, when it is a list of logbook entries.
IsLogbookList ==
    /\ resp.op \in {"GET /logbook/me", "GET /logbook/supervisor"}
    /\ resp.status = 200

\* C21: a list answered by GET /logbook/me or GET /logbook/supervisor holds
\* no entry with deleted_at set, and its entries come with tanggal
\* non-increasing.
C21_ListsHideDeletedAndAreOrdered ==
    IsLogbookList =>
        /\ \A k \in DOMAIN resp.data : resp.data[k].deleted_at = NULL
        /\ \A k \in DOMAIN resp.data :
              k > 1 => resp.data[k - 1].tanggal >= resp.data[k].tanggal

\* A list was answered whose first entry was written after its last entry
\* and carries the later date.
C21_Witness ==
    /\ IsLogbookList
    /\ Len(resp.data) >= 2
    /\ resp.data[1].tanggal > resp.data[Len(resp.data)].tanggal
    /\ \E i, j \in Ids(logbooks) :
          i < j /\ resp.data[1] = logbooks[j] /\ resp.data[Len(resp.data)] = logbooks[i]

\* C29: for every supervisor S, total_logbooks of GET /supervisor/stats is the
\* number of entries GET /logbook/supervisor answers S in the same state, and
\* perlu_disetujui is the number of those entries with status 'menunggu'.
C29_StatsMatchList ==
    \A S \in Supervisors :
        /\ SupervisorStats(S).total_logbooks = Cardinality(LogbookSupervisor(S))
        /\ SupervisorStats(S).perlu_disetujui =
              Cardinality({r \in LogbookSupervisor(S) : logbooks[r[1]].status = "menunggu"})

----------------------------------------------------------------------------
(* Creations and deletions on the four tables of the latest revision       *)
(* (specification SpecDelete).                                             *)

DlPostUsers ==
    /\ \E auth \in Admins : PostUsers(auth, "Citra", "citra", "secret", "peserta", NULL)
    /\ UNCHANGED hist

DlPostCompanies ==
    /\ Len(companies) < Len(SeedCompanies) + MaxNewCompanies
    /\ \E auth \in Admins : PostCompanies(auth, "PT C")
    /\ UNCHANGED hist

DlPostPlacements ==
    /\ Len(placements) < MaxPlacements
    /\ \E auth \in Admins, u \in OneParticipant, s \in OneSupervisor :
          PostPlacements(auth, u, s, 1)
    /\ UNCHANGED hist

DlPostLogbook ==
    /\ Len(logbooks) < MaxLogbooks
    /\ \E auth \in ParticipantCaller :
          PostLogbook(auth, "lab session", NOW, NoFile, NoText)
    /\ UNCHANGED hist

DlDeleteUsers ==
    /\ \E auth \in Admins, id \in OneParticipant \cup {Len(users), Len(users) + 1} :
          DeleteUsers(auth, id)
    /\ UNCHANGED hist

DlDeleteCompanies ==
    /\ \E auth \in Admins, id \in {1, Len(companies) + 1} : DeleteCompanies(auth, id)
    /\ UNCHANGED hist

DlDeletePlacements ==
    /\ \E auth \in Admins, id \in {1, Len(placements), Len(placements) + 1} :
          DeletePlacements(auth, id)
    /\ UNCHANGED hist

DlDeleteLogbook ==
    /\ \E auth \in Admins \cup ParticipantCaller,
          id \in {1, Len(logbooks), Len(logbooks) + 1} :
          DeleteLogbook(auth, id)
    /\ UNCHANGED hist

NextDelete ==
    \/ DlPostUsers
    \/ DlPostCompanies
    \/ DlPostPlacements
    \/ DlPostLogbook
    \/ DlDeleteUsers
    \/ DlDeleteCompanies
    \/ DlDeletePlacements
    \/ DlDeleteLogbook

SpecDelete == Init /\ [][NextDelete]_vars

\* C22: no request of the latest revision removes a row: every id of users,
\* companies, placements and logbooks before a request is an id after it.
C22_RowsNeverRemoved ==
    [][/\ Ids(users) \subseteq Ids(users')
       /\ Ids(companies) \subseteq Ids(companies')
       /\ Ids(placements) \subseteq Ids(placements')
       /\ Ids(logbooks) \subseteq Ids(logbooks')]_vars

\* Each table holds a row that a DELETE request marked, and the last request
\* was such a DELETE.
C22_Witness ==
    /\ resp.op = "DELETE /logbook/:id" /\ resp.status = 200
    /\ \E i \in Ids(users) : users[i].deleted_at # NULL
    /\ \E i \in Ids(companies) : companies[i].deleted_at # NULL
    /\ \E i \in Ids(placements) : placements[i].deleted_at # NULL
    /\ \E i \in Ids(logbooks) : logbooks[i].deleted_at # NULL

----------------------------------------------------------------------------
(* The owner of a created logbook entry, in every revision (SpecRev).      *)

\* C23: every entry a POST /logbook creates has as user_id the id of the token
\* the caller presents, whatever user_id the body carries.  The earlier
\* revisions read no token, so the request is the same for every caller.
C23_OwnedByCaller ==
    [][\A auth \in AuthsOfRoles({"peserta"}) :
          (\/ \E kegiatan \in KegiatanInputs, tanggal \in TanggalInputs,
                 status \in StatusInputs :
                  PostLogbook(auth, kegiatan, tanggal, NoFile, status)
           \/ \E user_id \in Ids(users), kegiatan \in KegiatanInputs,
                 tanggal \in TanggalInputs, kehadiran \in {NoText, "Izin"},
                 status \in StatusInputs :
                  PostLogbookEarlier(user_id, kegiatan, tanggal, kehadiran,
                                     NoFile, status))
              => \A i \in Ids(logbooks') \ Ids(logbooks) :
                    logbooks'[i].user_id = auth.id]_vars

----------------------------------------------------------------------------
(* The participant's status and company against the placements (Spec).    *)

\* C24: after any sequence of completed admin requests on users and
\* placements, a participant has status_laporan 'active' exactly when a
\* placement of theirs has deleted_at NULL; then company_id is that
\* placement's company_id, and otherwise it is NULL.
C24_StatusFollowsPlacement ==
    \A u \in Participants :
        /\ users[u].status_laporan = "active" <=> ActivePlacements(u) # {}
        /\ \A p \in ActivePlacements(u) : users[u].company_id = placements[p].company_id
        /\ ActivePlacements(u) = {} => users[u].company_id = NULL

\* C25: DELETE /placements/:id for a placement whose deleted_at is already
\* set, or for an id no placement has, leaves status_laporan and company_id of
\* every user as they were.
C25_RepeatedRemovalChangesNoUser ==
    [][\A auth \in Admins, id \in IdInputs(placements) :
          (/\ id \notin Ids(placements) \/ placements[id].deleted_at # NULL
           /\ resp'.op = "DELETE /placements/:id"
           /\ DeletePlacements(auth, id))
              => \A u \in Ids(users) :
                    /\ users'[u].status_laporan = users[u].status_laporan
                    /\ users'[u].company_id = users[u].company_id]_vars

----------------------------------------------------------------------------
(* What an active placement refers to (SpecDelete).                        *)

\* C26: every placement with deleted_at NULL has as user_id a non-deleted user
\* of role peserta, as supervisor_id a non-deleted user of role supervisor and
\* as company_id a non-deleted company.
C26_ActivePlacementRefersToLiveRows ==
    \A p \in Ids(placements) :
        placements[p].deleted_at = NULL =>
            /\ placements[p].user_id \in Ids(users)
            /\ users[placements[p].user_id].deleted_at = NULL
            /\ users[placements[p].user_id].role = "peserta"
            /\ placements[p].supervisor_id \in Ids(users)
            /\ users[placements[p].supervisor_id].deleted_at = NULL
            /\ users[placements[p].supervisor_id].role = "supervisor"
            /\ placements[p].company_id \in Ids(companies)
            /\ companies[placements[p].company_id].deleted_at = NULL

----------------------------------------------------------------------------
(* The requests of the latest revision that need no token, and the         *)
(* protected routes called without a verified one (specification SpecOpen).*)

\* The role fields a registration's body carries: none, or a role.
RoleInputs == {NoText, "admin", "supervisor"}

OpPostRegister ==
    /\ \E username \in {"citra", "amara"}, password \in {"secret", "wrong"},
          role \in RoleInputs :
          PostRegister("Citra", "2201", "Informatika", "0812", username, password, role)
    /\ Len(users') <= Len(SeedUsers) + MaxNewUsers
    /\ UNCHANGED hist

OpPostLogin ==
    /\ \E username \in {"citra", "admin", NoText}, password \in {"secret", "wrong"} :
          PostLogin(username, password)
    /\ UNCHANGED hist

OpPostUsers ==
    /\ \E auth \in Unverified, role \in RoleInputs \ {NoText} :
          PostUsers(auth, "Dewi", "dewi", "secret", role, NULL)
    /\ UNCHANGED hist

OpPutUsers ==
    /\ \E auth \in Unverified, id \in Ids(users) \ Ids(SeedUsers) :
          PutUsers(auth, id, users[id].username, "admin", NULL, NoText)
    /\ UNCHANGED hist

OpGet ==
    /\ \E auth \in Unverified, route \in ReadRoutes : Get(auth, route)
    /\ UNCHANGED hist

NextOpen ==
    \/ OpPostRegister
    \/ OpPostLogin
    \/ OpPostUsers
    \/ OpPutUsers
    \/ OpGet

SpecOpen == Init /\ [][NextOpen]_vars

\* C27: a user row that POST /register creates has role 'peserta',
\* status_laporan 'locked' and no company, whatever role the body carries; and
\* no request without a verified token adds a user of role admin or
\* supervisor or gives such a role to a user.
C27_RegisterCreatesLockedParticipant ==
    [][/\ \A i \in Ids(users') \ Ids(users) :
             /\ users'[i].role = "peserta"
             /\ users'[i].status_laporan = "locked"
             /\ users'[i].company_id = NULL
       /\ \A i \in Ids(users) : users'[i].role = users[i].role]_vars

\* A registration was answered 200 and its user is in the table.
C27_Witness ==
    /\ resp = Reply("POST /register", 200, NoText)
    /\ Len(users) > Len(SeedUsers)
    /\ users[Len(users)].username = "citra"
    /\ users[Len(users)].role = "peserta"

----------------------------------------------------------------------------
(* Tokens that outlive a change of their user's row (specification         *)
(* SpecToken).                                                             *)

TkPutUsers ==
    /\ \E auth \in Admins, id \in OneParticipant, role \in {"peserta", "supervisor"} :
          PutUsers(auth, id, users[id].username, role, users[id].company_id, NoText)
    /\ UNCHANGED hist

TkDeleteUsers ==
    /\ \E auth \in Admins, id \in OneParticipant \cup OneSupervisor : DeleteUsers(auth, id)
    /\ UNCHANGED hist

TkPostLogin ==
    /\ \E username \in {"amara", "sup1"} : PostLogin(username, "secret")
    /\ UNCHANGED hist

TkGet ==
    /\ \E auth \in AuthsOfRoles(Roles), route \in ReadRoutes :
          /\ auth.id \in OneParticipant \cup OneSupervisor
          /\ Get(auth, route)
    /\ UNCHANGED hist

NextToken ==
    \/ TkPutUsers
    \/ TkDeleteUsers
    \/ TkPostLogin
    \/ TkGet

SpecToken == Init /\ [][NextToken]_vars

\* C28: the decision of a protected route about a request with an unexpired
\* token depends on the route and on the role in the token only: 200 when the
\* route allows that role, 403 otherwise, in every state, so also before and
\* after an admin changed the role of the token's user or soft-deleted them.
C28_DecisionFollowsTokenRole ==
    [][\A auth \in AuthsOfRoles(Roles), route \in ReadRoutes :
          Get(auth, route) =>
              resp'.status = IF auth.role \in route.roles THEN 200 ELSE 403]_vars

\* A participant's token was let through GET /logbook/me after the admin had
\* soft-deleted that user and made them a supervisor.
C28_Witness ==
    /\ resp = Reply("GET /logbook/me", 200, NoText)
    /\ \A u \in OneSupervisor : users[u].deleted_at = NULL
    /\ \E u \in Ids(users) :
          /\ users[u].username = "amara"
          /\ users[u].deleted_at # NULL
          /\ users[u].role = "supervisor"

----------------------------------------------------------------------------
(* GET /participant/stats statement by statement, with other requests      *)
(* between its queries (specification SpecStats).  Worker 1 runs the        *)
(* handler; sel collects the counts its queries returned so far.           *)

\* SELECT COUNT(*) FROM logbooks WHERE user_id = ? AND deleted_at IS NULL
CountOwn(user_id) ==
    Cardinality({i \in Ids(logbooks) :
                    logbooks[i].user_id = user_id /\ logbooks[i].deleted_at = NULL})

\* SELECT COUNT(*) FROM logbooks WHERE user_id = ? AND status = ? AND deleted_at IS NULL
CountOwnWithStatus(user_id, status) ==
    Cardinality({i \in Ids(logbooks) :
                    /\ logbooks[i].user_id = user_id
                    /\ logbooks[i].status = status
                    /\ logbooks[i].deleted_at = NULL})

\* The request passed verifyToken and allow("peserta"), or was turned away.
StatsArrive(auth) ==
    LET op == "GET /participant/stats"
        gate == Gate(auth, {"peserta"})
    IN  /\ rev = Latest
        /\ procs[1].pc = "idle"
        /\ UNCHANGED <<rev, users, companies, placements, logbooks, tokens, uploads>>
        /\ IF gate.status # 200
           THEN /\ resp' = Reply(op, gate.status, gate.error)
                /\ UNCHANGED procs
           ELSE /\ procs' = [procs EXCEPT ![1] = [IdleProc EXCEPT !.pc = "total", !.op = op,
                                                                 !.user_id = auth.id,
                                                                 !.sel = << >>]]
                /\ UNCHANGED resp

\* One of the four count queries: the one pc names, leaving its count in sel.
StatsCount(pc, next) ==
    LET user_id == procs[1].user_id
        count == IF pc = "total" THEN CountOwn(user_id)
                 ELSE CountOwnWithStatus(user_id, pc)
    IN  /\ procs[1].pc = pc
        /\ procs' = [procs EXCEPT ![1].sel = Append(@, count), ![1].pc = next]
        /\ UNCHANGED <<rev, users, companies, placements, logbooks, tokens, uploads, resp>>

\* The placement query and res.json with the four counts; perusahaan is the
\* joined company row, held as its id, or NULL when the query found none.
StatsRespond ==
    LET sel == procs[1].sel
        placement == {p \in ActivePlacements(procs[1].user_id) :
                         placements[p].company_id \in Ids(companies)}
    IN  /\ procs[1].pc = "perusahaan"
        /\ resp' = ReplyData("GET /participant/stats",
                       [total_logbooks |-> sel[1], logbooks_disetujui |-> sel[2],
                        logbooks_pending |-> sel[3], logbooks_ditolak |-> sel[4],
                        perusahaan |-> IF placement = {} THEN NULL
                                       ELSE placements[CHOOSE p \in placement :
                                                \A q \in placement : p <= q].company_id])
        /\ procs' = [procs EXCEPT ![1] = IdleProc]
        /\ UNCHANGED <<rev, users, companies, placements, logbooks, tokens, uploads>>

PsArrive ==
    /\ \E auth \in ParticipantCaller \cup {NoAuth} : StatsArrive(auth)
    /\ UNCHANGED hist

PsCountTotal ==
    /\ StatsCount("total", "disetujui")
    /\ UNCHANGED hist

PsCountApproved ==
    /\ StatsCount("disetujui", "menunggu")
    /\ UNCHANGED hist

PsCountPending ==
    /\ StatsCount("menunggu", "ditolak")
    /\ UNCHANGED hist

PsCountRejected ==
    /\ StatsCount("ditolak", "perusahaan")
    /\ UNCHANGED hist

PsRespond ==
    /\ StatsRespond
    /\ UNCHANGED hist

PsPostLogbook ==
    /\ Len(logbooks) < MaxLogbooks
    /\ \E auth \in ParticipantCaller :
          PostLogbook(auth, "lab session", NOW, NoFile, NoText)
    /\ UNCHANGED hist

PsPutLogbookStatus ==
    /\ \E auth \in SupervisorCaller, id \in Ids(logbooks),
          status \in {"disetujui", "ditolak"} :
          PutLogbookStatus(auth, id, status)
    /\ UNCHANGED hist

PsDeleteLogbook ==
    /\ \E auth \in ParticipantCaller, id \in Ids(logbooks) : DeleteLogbook(auth, id)
    /\ UNCHANGED hist

NextStats ==
    \/ PsArrive
    \/ PsCountTotal
    \/ PsCountApproved
    \/ PsCountPending
    \/ PsCountRejected
    \/ PsRespond
    \/ PsPostLogbook
    \/ PsPutLogbookStatus
    \/ PsDeleteLogbook

SpecStats == Init /\ [][NextStats]_vars

\* C30: the counts of one GET /participant/stats answer add up:
\* total_logbooks = logbooks_disetujui + logbooks_pending + logbooks_ditolak,
\* also when status updates and deletions of the participant's entries come
\* between the handler's count queries.
C30_CountsAddUp ==
    (resp.op = "GET /participant/stats" /\ resp.status = 200) =>
        resp.data.total_logbooks =
            resp.data.logbooks_disetujui + resp.data.logbooks_pending
                + resp.data.logbooks_ditolak

====
